---- MODULE Spec2Model ----
(***************************************************************************)
(* Verification model of the WebAutomationTool core (src/src/core):         *)
(* the element-targeting part (attribute classifier, selector candidate    *)
(* builder, interactive element picker in three implementations, XPath     *)
(* failure analyzer) and the execution engine (template resolvers, action  *)
(* handlers behind execute_action, the wait actions, and the row-driven    *)
(* runs of WorkflowExecutor and TaskExecutionThread), together with the    *)
(* parts of the application that drive it: the picker button of the        *)
(* actions editor (two pick sessions on one page), the whole of            *)
(* TaskExecutionThread.run, the editing handlers of ActionsList            *)
(* (src/ui/components) and the calls on the shared BrowserController.      *)
(*                                                                         *)
(* Strings of the program are sequences of one-character strings, so that  *)
(* regular expressions, f-string formatting and substring tests are        *)
(* computed character by character.  Exception messages are TLA+ strings.  *)
(***************************************************************************)
EXTENDS Integers, Sequences, FiniteSets, TLC

VARIABLES
    \* ---- attribute classifier (SpecSem) ----
    value,          \* the string handed to _is_random
    semResult,      \* the results of the is_semantic calls made on value
    \* ---- candidate builder / healing loop (SpecBuild) ----
    blacklist,      \* ElementPicker.blacklist: list of [element, attribute, value]
    target,         \* element_info[0] of the last build
    ancestors,      \* element_info[1:] of the last build
    selector,       \* the XPath the last build returned
    failedXpath,    \* the selector handed to analyze_failure
    answers,        \* what the page answered to analyze_failure's queries
    analysis,       \* the blacklist analyze_failure returned
    phase,          \* "off" | "idle" | "built" | "analyzed" | "healing" | "rebuilt"
    \* ---- element picker (SpecPick) ----
    variant,        \* which ElementPicker class: "basic" | "clean" | "toggle"
    pc,             \* position of the pick_element coroutine
    page,           \* the document and window state of the Playwright page
    injectedPages,  \* ElementPicker._picker_injected_pages contains id(page)
    result,         \* the dict pick_element returned
    hist,           \* history of the current call (for stating the claims)
    \* ---- template resolvers (SpecTpl, SpecCols) ----
    tplParts,       \* the pieces the template string was written from
    expression,     \* the template string handed to the resolvers
    row_data,       \* the data row: ordered list of [name, value]
    default_value,  \* evaluate_template's default_value
    tplOut,         \* the resolver calls made and what each returned or raised
    task_config,    \* the task handed to extract_required_columns
    required_columns, \* what extract_required_columns returned, one per call
    \* ---- action execution (SpecExec, SpecRun) ----
    action,         \* the action dict handed to execute_action
    controller,     \* app_services._browser_controller and its pages dict
    execOut,        \* the execute_action calls made and what each produced
    \* ---- waiting and cancellation (SpecWait) ----
    wait,           \* the wait in progress: implementation, duration, position
    should_stop,    \* the stop request (TaskExecutionThread.should_stop)
    \* ---- workflow runs (SpecRun) ----
    runner,         \* "WorkflowExecutor" | "TaskExecutionThread"
    workflow_def,   \* the workflow: its browsers and its list of actions
    data,           \* the rows of the DataFrame
    runPc,          \* position of the run
    rowIdx,         \* index of the row being executed (1-based)
    actionIdx,      \* index of the action being executed (1-based)
    inflight,       \* the execute_action call the run is awaiting
    row_results,    \* row_results of the row being executed
    results,        \* results: one entry per finished row
    successful_rows,
    failed_rows,
    runOut,         \* what the run returned, or the exception that left it
    events,         \* the dispatches and returns of the run, in order
    \* ---- two pick requests on one page (SpecDual) ----
    dual,           \* the two pick_element coroutines and the page's window.elementPicker
    \* ---- TaskExecutionThread.run (SpecThread) ----
    thr,            \* the task, the position in run, the result and what was emitted
    \* ---- ActionsList (SpecEdit) ----
    editor,         \* the actions, editing_action, editing_index and the Add button
    \* ---- BrowserController (SpecBrowser) ----
    bc              \* the maps of the controller, the browsers launched, the calls in flight

semVars   == <<value, semResult>>
buildVars == <<blacklist, target, ancestors, selector, failedXpath, answers,
               analysis, phase>>
pickVars  == <<variant, pc, page, injectedPages, result, hist>>
tplVars   == <<tplParts, expression, row_data, default_value, tplOut>>
colsVars  == <<task_config, required_columns>>
execVars  == <<action, controller, execOut>>
waitVars  == <<wait, should_stop>>
runVars   == <<runner, workflow_def, data, runPc, rowIdx, actionIdx, inflight,
               row_results, results, successful_rows, failed_rows, runOut,
               events>>
engineVars == <<tplVars, colsVars, execVars, waitVars, runVars>>
coreVars  == <<value, semResult, blacklist, target, ancestors, selector,
               failedXpath, answers, analysis, phase, variant, pc, page,
               injectedPages, result, hist>>
appVars   == <<dual, thr, editor, bc>>
vars      == <<coreVars, engineVars, appVars>>

\* the template resolvers have not been given anything
TplIdle ==
    /\ tplParts = <<>> /\ expression = <<>> /\ row_data = <<>>
    /\ default_value = [given |-> FALSE, s |-> <<>>] /\ tplOut = <<>>

\* extract_required_columns has not been given anything
ColsIdle == task_config = <<>> /\ required_columns = <<>>

\* execute_action has not been called
ExecIdle ==
    /\ action = <<>> /\ controller = [initialized |-> FALSE, pages |-> {}]
    /\ execOut = <<>>

\* nothing waits and nothing asked to stop
WaitIdle ==
    /\ wait = [impl |-> "none", tenths |-> 0, slept |-> 0, pc |-> "off",
               afterStop |-> 0, success |-> FALSE]
    /\ should_stop = FALSE

\* no workflow runs
RunIdle ==
    /\ runner = "none" /\ workflow_def = [browsers |-> {}, actions |-> <<>>]
    /\ data = <<>> /\ runPc = "off" /\ rowIdx = 0 /\ actionIdx = 0
    /\ inflight = <<>> /\ row_results = <<>> /\ results = <<>>
    /\ successful_rows = 0 /\ failed_rows = 0
    /\ runOut = [returned |-> FALSE, raised |-> FALSE, success |-> FALSE,
                 error |-> "", total_rows |-> 0]
    /\ events = <<>>

\* no pick request has been made on the shared page
DualIdle ==
    dual = [on |-> FALSE, pc |-> <<"idle", "idle">>, gen |-> 1, requests |-> 0,
            outcome |-> <<"none", "none">>]

\* no TaskExecutionThread has been started
ThrIdle == thr = [pc |-> "off"]

\* no ActionsList is shown
EditIdle == editor = [on |-> FALSE]

\* no BrowserController has been created
BcIdle == bc = [on |-> FALSE]

\* nothing of the application around the core is in use
AppIdle == DualIdle /\ ThrIdle /\ EditIdle /\ BcIdle

\* nothing of the template and execution engine is in use
EngineIdle == TplIdle /\ ColsIdle /\ ExecIdle /\ WaitIdle /\ RunIdle

----------------------------------------------------------------------------
(* Characters and character classes                                        *)

LowerChars ==
    {"a","b","c","d","e","f","g","h","i","j","k","l","m",
     "n","o","p","q","r","s","t","u","v","w","x","y","z"}

UpperChars ==
    {"A","B","C","D","E","F","G","H","I","J","K","L","M",
     "N","O","P","Q","R","S","T","U","V","W","X","Y","Z"}

DigitChars == {"0","1","2","3","4","5","6","7","8","9"}

\* \w of Python's re for the ASCII characters of the model
WordChars == LowerChars \cup UpperChars \cup DigitChars \cup {"_"}

\* the newline character
NL == "\n"

RECURSIVE Repeat(_, _)
\* Python's  s * n  for a string s
Repeat(s, n) == IF n <= 0 THEN <<>> ELSE s \o Repeat(s, n - 1)

\* Python's  sub in s  for strings
Contains(s, sub) ==
    \E i \in 1..(Len(s) - Len(sub) + 1) : SubSeq(s, i, i + Len(sub) - 1) = sub

----------------------------------------------------------------------------
(* A backtracking-free (position-set) evaluator of the regular-expression  *)
(* fragment the program uses with re.match.                                *)

Cls(S)    == [k |-> "cls",  set |-> S]
Cat(ps)   == [k |-> "seq",  parts |-> ps]
Star(r)   == [k |-> "star", r |-> r]
Plus(r)   == [k |-> "plus", r |-> r]
Bol       == [k |-> "bol"]
Eol       == [k |-> "eol"]

RECURSIVE Ends(_, _, _)
RECURSIVE EndsSeq(_, _, _, _)
RECURSIVE Closure(_, _, _)

\* The positions at which a match of r can end when it starts at one of P.
\* '^' matches at the start of the string; '$' matches at the end of the
\* string and just before a newline that ends the string (Python's re
\* without re.MULTILINE).
Ends(r, s, P) ==
    CASE r.k = "cls"  -> {p + 1 : p \in {q \in P : q <= Len(s) /\ s[q] \in r.set}}
      [] r.k = "seq"  -> EndsSeq(r.parts, 1, s, P)
      [] r.k = "star" -> Closure(r.r, s, P)
      [] r.k = "plus" -> Closure(r.r, s, Ends(r.r, s, P))
      [] r.k = "bol"  -> {p \in P : p = 1}
      [] r.k = "eol"  -> {p \in P : \/ p = Len(s) + 1
                                    \/ (p = Len(s) /\ s[p] = NL)}

EndsSeq(parts, i, s, P) ==
    IF i > Len(parts) THEN P
    ELSE EndsSeq(parts, i + 1, s, Ends(parts[i], s, P))

Closure(r, s, P) ==
    LET Q == P \cup Ends(r, s, P)
    IN  IF Q = P THEN P ELSE Closure(r, s, Q)

\* re.match(pattern, s) is not None
re_match(r, s) == Ends(r, s, {1}) # {}

----------------------------------------------------------------------------
(* Attribute classifier: ElementPicker._is_random                          *)

MinSemanticLen == 2
MaxSemanticLen == 30

Lo == Cls(LowerChars)
Up == Cls(UpperChars)
Ch(c) == Cls({c})

\* SEMANTIC_PATTERNS, each as written in the source (with its own '$')
SEMANTIC_PATTERNS == <<
    \* ^[a-z]+$
    <<Bol, Plus(Lo), Eol>>,
    \* ^[a-z]+-[a-z]+(-[a-z]+)*$
    <<Bol, Plus(Lo), Ch("-"), Plus(Lo),
      Star(Cat(<<Ch("-"), Plus(Lo)>>)), Eol>>,
    \* ^[a-z]+[A-Z][a-z]*([A-Z][a-z]*)*$
    <<Bol, Plus(Lo), Up, Star(Lo),
      Star(Cat(<<Up, Star(Lo)>>)), Eol>>,
    \* ^[a-z]+_[a-z]+(_[a-z]+)*$
    <<Bol, Plus(Lo), Ch("_"), Plus(Lo),
      Star(Cat(<<Ch("_"), Plus(Lo)>>)), Eol>>,
    \* ^[A-Z][a-z]+([A-Z][a-z]*)*$
    <<Bol, Up, Plus(Lo),
      Star(Cat(<<Up, Star(Lo)>>)), Eol>> >>

\* _is_random(value): True when the value looks auto-generated
_is_random(v) ==
    IF v = <<>> \/ Len(v) < MinSemanticLen \/ Len(v) > MaxSemanticLen
    THEN TRUE
    ELSE ~ \E i \in 1..Len(SEMANTIC_PATTERNS) :
             re_match(Cat(SEMANTIC_PATTERNS[i] \o <<Eol>>), v)

\* the spec's is_semantic
is_semantic(v) == ~ _is_random(v)

----------------------------------------------------------------------------
(* Selector candidate builder: ElementPicker._build_unique_xpath and its   *)
(* helpers.  An element_info is [tagName, attributes, textContent] with    *)
(* attributes a function from attribute names to values (a Python dict);   *)
(* the blacklist is a list of [element, attribute, value] records.         *)

\* attribute names
A_id     == <<"i","d">>
A_name   == <<"n","a","m","e">>
A_type   == <<"t","y","p","e">>
A_class  == <<"c","l","a","s","s">>
A_testid == <<"d","a","t","a","-","t","e","s","t","i","d">>
A_cy     == <<"d","a","t","a","-","c","y">>
A_test   == <<"d","a","t","a","-","t","e","s","t">>
A_auto   == <<"d","a","t","a","-","a","u","t","o","m","a","t","i","o","n">>
A_qa     == <<"d","a","t","a","-","q","a">>
A_text   == <<"t","e","x","t">>

\* tag names
T_a       == <<"a">>
T_button  == <<"b","u","t","t","o","n">>
T_span    == <<"s","p","a","n">>
T_label   == <<"l","a","b","e","l">>
T_input   == <<"i","n","p","u","t">>
T_div     == <<"d","i","v">>
T_form    == <<"f","o","r","m">>
T_nav     == <<"n","a","v">>
T_main    == <<"m","a","i","n">>
T_section == <<"s","e","c","t","i","o","n">>
T_article == <<"a","r","t","i","c","l","e">>
T_header  == <<"h","e","a","d","e","r">>
T_footer  == <<"f","o","o","t","e","r">>
T_body    == <<"b","o","d","y">>

\* pieces of the f-strings
DQ == "\""
SlashSlash == <<"/","/">>

\* f'//[@id="{v}"]'  (the source has no node test after the slashes)
FmtId(v) == SlashSlash \o <<"[","@">> \o A_id \o <<"=",DQ>> \o v \o <<DQ,"]">>

\* f'//{tag}[@{attr}="{v}"]'
FmtAttr(tag, attr, v) ==
    SlashSlash \o tag \o <<"[","@">> \o attr \o <<"=",DQ>> \o v \o <<DQ,"]">>

\* f'//{tag}[text()="{text}"]'
FmtText(tag, text) ==
    SlashSlash \o tag \o <<"[","t","e","x","t","(",")","=",DQ>> \o text \o <<DQ,"]">>

\* f'//{tag}[contains(@class, "{cls}")]'
FmtClass(tag, cls) ==
    SlashSlash \o tag \o <<"[","c","o","n","t","a","i","n","s","(","@">> \o A_class
        \o <<","," ",DQ>> \o cls \o <<DQ,")","]">>

\* f'//{tag}'
FmtTag(tag) == SlashSlash \o tag

\* ElementPicker._is_blacklisted
_is_blacklisted(bl, element_tag, attribute, v) ==
    \E i \in 1..Len(bl) :
        /\ bl[i].element = element_tag
        /\ bl[i].attribute = attribute
        /\ bl[i].value = v

\* _get_clean_attributes that keeps blacklisted attributes
CleanAttributesIgnoringBlacklist(bl, element_info) ==
    LET attributes == element_info.attributes
        keep == {a \in DOMAIN attributes : ~ _is_random(attributes[a])}
    IN  [a \in keep |-> attributes[a]]

\* ElementPicker._get_clean_attributes
_get_clean_attributes(bl, element_info) ==
    LET tag_name   == element_info.tagName
        attributes == element_info.attributes
        keep == {a \in DOMAIN attributes :
                    /\ ~ _is_blacklisted(bl, tag_name, a, attributes[a])
                    /\ ~ _is_random(attributes[a])}
    IN  [a \in keep |-> attributes[a]]

\* characters str.split() splits on
Whitespace == {" ", "\t", NL, "\r", "\f"}

RECURSIVE SplitFrom(_, _, _)
\* str.split(): the maximal runs of non-whitespace characters, in order
SplitFrom(s, i, cur) ==
    IF i > Len(s) THEN (IF cur = <<>> THEN <<>> ELSE <<cur>>)
    ELSE IF s[i] \in Whitespace
         THEN (IF cur = <<>> THEN <<>> ELSE <<cur>>) \o SplitFrom(s, i + 1, <<>>)
         ELSE SplitFrom(s, i + 1, Append(cur, s[i]))

split(s) == SplitFrom(s, 1, <<>>)

\* ancestor tags that are used without any attribute
SemanticContainers ==
    {T_form, T_nav, T_main, T_section, T_article, T_header, T_footer}

\* ElementPicker._get_clean_ancestor_selector; None is the empty string
_get_clean_ancestor_selector(bl, ancestor_info) ==
    LET tag_name    == ancestor_info.tagName
        clean_attrs == _get_clean_attributes(bl, ancestor_info)
        classes     == IF A_class \in DOMAIN clean_attrs
                       THEN split(clean_attrs[A_class]) ELSE <<>>
        good        == {i \in 1..Len(classes) :
                           /\ ~ _is_blacklisted(bl, tag_name, A_class, classes[i])
                           /\ ~ _is_random(classes[i])}
    IN  IF tag_name \in SemanticContainers THEN FmtTag(tag_name)
        ELSE IF A_id \in DOMAIN clean_attrs THEN FmtId(clean_attrs[A_id])
        ELSE IF good # {}
             THEN FmtClass(tag_name,
                           classes[CHOOSE i \in good : \A j \in good : i <= j])
        ELSE <<>>

\* ElementPicker._add_ancestor_context
_add_ancestor_context(bl, base_selector, ancs) ==
    LET usable == {i \in 1..Len(ancs) :
                      _get_clean_ancestor_selector(bl, ancs[i]) # <<>>}
    IN  IF ancs = <<>> THEN base_selector
        ELSE IF usable # {}
             THEN _get_clean_ancestor_selector(
                      bl, ancs[CHOOSE i \in usable : \A j \in usable : i <= j])
                  \o base_selector
        ELSE base_selector

\* test_attrs of _build_unique_xpath, in the order they are tried
test_attrs == <<A_testid, A_cy, A_test, A_auto, A_qa>>

\* tags whose text content is used for a selector
TextTags == {T_button, T_a, T_span, T_label}

MaxTextLen == 50

RECURSIVE TestAttrCandidates(_, _, _)
\* the loop over test_attrs: one candidate per clean test attribute
TestAttrCandidates(tag_name, clean_attrs, i) ==
    IF i > Len(test_attrs) THEN <<>>
    ELSE (IF test_attrs[i] \in DOMAIN clean_attrs
          THEN <<FmtAttr(tag_name, test_attrs[i], clean_attrs[test_attrs[i]])>>
          ELSE <<>>)
         \o TestAttrCandidates(tag_name, clean_attrs, i + 1)

\* the candidates list with the name rule tried before the id rule
CandidatesNameFirst(bl, target_element) ==
    LET tag_name     == target_element.tagName
        attributes   == target_element.attributes
        text_content == target_element.textContent
        clean_attrs  == _get_clean_attributes(bl, target_element)
    IN  (IF A_name \in DOMAIN clean_attrs
         THEN <<FmtAttr(tag_name, A_name, clean_attrs[A_name])>> ELSE <<>>)
        \o (IF A_id \in DOMAIN clean_attrs
            THEN <<FmtId(clean_attrs[A_id])>> ELSE <<>>)
        \o TestAttrCandidates(tag_name, clean_attrs, 1)
        \o (IF /\ text_content # <<>>
               /\ Len(text_content) < MaxTextLen
               /\ tag_name \in TextTags
               /\ ~ _is_random(text_content)
            THEN <<FmtText(tag_name, text_content)>> ELSE <<>>)
        \o (IF A_type \in DOMAIN attributes
            THEN <<FmtAttr(tag_name, A_type, attributes[A_type])>> ELSE <<>>)
        \o <<FmtTag(tag_name)>>

\* the candidates list of _build_unique_xpath, in priority order
Candidates(bl, target_element) ==
    LET tag_name     == target_element.tagName
        attributes   == target_element.attributes
        text_content == target_element.textContent
        clean_attrs  == _get_clean_attributes(bl, target_element)
    IN  (IF A_id \in DOMAIN clean_attrs
         THEN <<FmtId(clean_attrs[A_id])>> ELSE <<>>)
        \o (IF A_name \in DOMAIN clean_attrs
            THEN <<FmtAttr(tag_name, A_name, clean_attrs[A_name])>> ELSE <<>>)
        \o TestAttrCandidates(tag_name, clean_attrs, 1)
        \o (IF /\ text_content # <<>>
               /\ Len(text_content) < MaxTextLen
               /\ tag_name \in TextTags
               /\ ~ _is_random(text_content)
            THEN <<FmtText(tag_name, text_content)>> ELSE <<>>)
        \o (IF A_type \in DOMAIN attributes
            THEN <<FmtAttr(tag_name, A_type, attributes[A_type])>> ELSE <<>>)
        \o <<FmtTag(tag_name)>>

\* base_selector of _build_unique_xpath
BaseSelector(bl, target_element) ==
    LET candidates == Candidates(bl, target_element)
    IN  IF candidates # <<>> THEN candidates[1]
        ELSE FmtTag(target_element.tagName)

\* ElementPicker._build_unique_xpath
_build_unique_xpath(bl, target_element, ancs) ==
    LET candidates    == Candidates(bl, target_element)
        clean_attrs   == _get_clean_attributes(bl, target_element)
        base_selector == BaseSelector(bl, target_element)
    IN  IF Len(candidates) > 1 \/ ~ (A_id \in DOMAIN clean_attrs)
        THEN _add_ancestor_context(bl, base_selector, ancs)
        ELSE base_selector

----------------------------------------------------------------------------
(* XPath failure analyzer: XPathFailureAnalyzer                            *)

\* items of the three patterns of _parse_xpath_components: a literal, a
\* captured one-or-more run of a character class, or \s*
Lit(cs)      == [t |-> "lit", s |-> cs]
Grp(S, neg)  == [t |-> "grp", set |-> S, neg |-> neg]
OptSpace     == [t |-> "ws"]

InClass(c, item) == IF item.neg THEN c \notin item.set ELSE c \in item.set

RECURSIVE RunEnd(_, _, _)
\* the position after the longest run of characters of the class from i
RunEnd(s, i, item) ==
    IF i <= Len(s) /\ InClass(s[i], item) THEN RunEnd(s, i + 1, item) ELSE i

RECURSIVE SpaceEnd(_, _)
SpaceEnd(s, i) ==
    IF i <= Len(s) /\ s[i] \in Whitespace THEN SpaceEnd(s, i + 1) ELSE i

RECURSIVE MatchAt(_, _, _, _, _)
\* Match items[k..] at position i of s.  Every run is followed by a literal
\* whose first character is outside the run's class, so the greedy run is
\* the only one a backtracking matcher can succeed with.
MatchAt(items, k, s, i, groups) ==
    IF k > Len(items) THEN [ok |-> TRUE, end |-> i, groups |-> groups]
    ELSE LET it == items[k] IN
         CASE it.t = "lit" ->
                IF /\ i + Len(it.s) - 1 <= Len(s)
                   /\ SubSeq(s, i, i + Len(it.s) - 1) = it.s
                THEN MatchAt(items, k + 1, s, i + Len(it.s), groups)
                ELSE [ok |-> FALSE, end |-> i, groups |-> groups]
           [] it.t = "grp" ->
                LET e == RunEnd(s, i, it) IN
                IF e > i
                THEN MatchAt(items, k + 1, s, e, Append(groups, SubSeq(s, i, e - 1)))
                ELSE [ok |-> FALSE, end |-> i, groups |-> groups]
           [] it.t = "ws" -> MatchAt(items, k + 1, s, SpaceEnd(s, i), groups)

RECURSIVE FindAllFrom(_, _, _)
\* re.findall: the groups of the non-overlapping matches, left to right
FindAllFrom(items, s, i) ==
    IF i > Len(s) THEN <<>>
    ELSE LET m == MatchAt(items, 1, s, i, <<>>) IN
         IF m.ok THEN <<m.groups>> \o FindAllFrom(items, s, m.end)
         ELSE FindAllFrom(items, s, i + 1)

findall(items, s) == FindAllFrom(items, s, 1)

\* the patterns list of _parse_xpath_components
ComponentPatterns == <<
    \* //(\w+)\[@(\w+)="([^"]+)"\]
    <<Lit(SlashSlash), Grp(WordChars, FALSE), Lit(<<"[","@">>),
      Grp(WordChars, FALSE), Lit(<<"=",DQ>>), Grp({DQ}, TRUE), Lit(<<DQ,"]">>)>>,
    \* //(\w+)\[contains\(@(\w+),\s*"([^"]+)"\)\]
    <<Lit(SlashSlash), Grp(WordChars, FALSE),
      Lit(<<"[","c","o","n","t","a","i","n","s","(","@">>),
      Grp(WordChars, FALSE), Lit(<<",">>), OptSpace, Lit(<<DQ>>),
      Grp({DQ}, TRUE), Lit(<<DQ,")","]">>)>>,
    \* //(\w+)\[text\(\)="([^"]+)"\]
    <<Lit(SlashSlash), Grp(WordChars, FALSE),
      Lit(<<"[","t","e","x","t","(",")","=",DQ>>), Grp({DQ}, TRUE),
      Lit(<<DQ,"]">>)>> >>

RECURSIVE ToComponents(_, _)
\* the inner loop of _parse_xpath_components over the matches of one pattern
ToComponents(matches, i) ==
    IF i > Len(matches) THEN <<>>
    ELSE LET match == matches[i] IN
         (IF Len(match) = 3
          THEN <<[element |-> match[1], attribute |-> match[2], value |-> match[3]]>>
          ELSE IF Len(match) = 2
          THEN <<[element |-> match[1], attribute |-> A_text, value |-> match[2]]>>
          ELSE <<>>)
         \o ToComponents(matches, i + 1)

\* XPathFailureAnalyzer._parse_xpath_components
_parse_xpath_components(xpath) ==
    ToComponents(findall(ComponentPatterns[1], xpath), 1)
    \o ToComponents(findall(ComponentPatterns[2], xpath), 1)
    \o ToComponents(findall(ComponentPatterns[3], xpath), 1)

\* test_selector of _test_component_exists
TestSelector(component) ==
    IF component.attribute = A_text
    THEN FmtText(component.element, component.value)
    ELSE IF component.attribute = A_class
    THEN FmtClass(component.element, component.value)
    ELSE FmtAttr(component.element, component.attribute, component.value)

\* what page.query_selector_all does for one selector: it returns some
\* elements ("found"), returns none ("empty") or raises ("raise")
QueryOutcomes == {"found", "empty", "raise"}

\* XPathFailureAnalyzer._test_component_exists; answer is the page's
\* behaviour for each test selector
_test_component_exists(component, answer) ==
    IF component.element = <<>> \/ component.attribute = <<>>
       \/ component.value = <<>>
    THEN FALSE
    ELSE answer[TestSelector(component)] = "found"

RECURSIVE FailedComponents(_, _, _)
\* the loop of analyze_failure
FailedComponents(components, answer, i) ==
    IF i > Len(components) THEN <<>>
    ELSE (IF ~ _test_component_exists(components[i], answer)
          THEN <<[element   |-> components[i].element,
                  attribute |-> components[i].attribute,
                  value     |-> components[i].value]>>
          ELSE <<>>)
         \o FailedComponents(components, answer, i + 1)

\* one failing component condemns the whole selector: every component is
\* returned as soon as one isolated query finds nothing
AnalyzeFailureAllOrNone(failed_xpath, answer) ==
    LET components == _parse_xpath_components(failed_xpath)
    IN  IF \E i \in 1..Len(components) : ~ _test_component_exists(components[i], answer)
        THEN components
        ELSE <<>>

\* XPathFailureAnalyzer.analyze_failure
analyze_failure(failed_xpath, answer) ==
    FailedComponents(_parse_xpath_components(failed_xpath), answer, 1)

\* the selectors analyze_failure queries the page with
QueriedSelectors(failed_xpath) ==
    LET components == _parse_xpath_components(failed_xpath)
    IN  {TestSelector(components[i]) : i \in 1..Len(components)}

----------------------------------------------------------------------------
(* Specification SpecSem: the classifier applied to bounded strings        *)

\* characters the classified strings are made of
SemAlphabet == {"a", "Z", "-", "_", "7", NL}

\* longest prefix drawn character by character
MaxPrefixLen == 3

\* lengths of the run of "a" appended to the prefix, so that the strings
\* cross the MaxSemanticLen boundary
PadLens == {0, MaxSemanticLen - 3, MaxSemanticLen - 2}

RECURSIVE StringsUpTo(_)
StringsUpTo(n) ==
    IF n = 0 THEN {<<>>}
    ELSE LET shorter == StringsUpTo(n - 1)
         IN  shorter \cup {Append(s, c) : s \in shorter, c \in SemAlphabet}

SemInputs == {s \o Repeat(<<"a">>, n) : s \in StringsUpTo(MaxPrefixLen), n \in PadLens}

NoElement == [tagName |-> <<>>, attributes |-> <<>>, textContent |-> <<>>]
NoResult  == [success |-> FALSE, selector |-> <<>>, method |-> "none",
              error |-> "none"]

BuildIdle ==
    /\ blacklist = <<>> /\ target = NoElement /\ ancestors = <<>>
    /\ selector = <<>> /\ failedXpath = <<>> /\ answers = <<>>
    /\ analysis = <<>> /\ phase = "off"

\* what is recorded about the current pick_element call
NoHist ==
    [n                |-> 0,      \* number of the call
     pageError        |-> FALSE,  \* a page operation of steps 1-4 raised
     timedOut         |-> FALSE,  \* wait_for_function timed out
     armedAtWait      |-> FALSE,  \* capture was armed when the wait began
     captured         |-> {},     \* the elements whose click was captured
     handle           |-> 0,      \* the element the handle refers to
     cleanupAttempted |-> FALSE,  \* a clean-up script was sent to the page
     cleanupRaised    |-> FALSE,  \* sending the clean-up script raised
     exc              |-> ""]     \* str(e) of the exception caught

PickIdle ==
    /\ variant = "none" /\ pc = "off" /\ page = <<>>
    /\ injectedPages = FALSE /\ result = NoResult /\ hist = NoHist

InitSem ==
    /\ AppIdle
    /\ value \in SemInputs
    /\ semResult = <<>>
    /\ BuildIdle
    /\ PickIdle
    /\ EngineIdle

\* calls of is_semantic made on one string
MaxCalls == 2

\* one call of is_semantic (not _is_random) on the string
Classify ==
    /\ Len(semResult) < MaxCalls
    /\ semResult' = Append(semResult, is_semantic(value))
    /\ UNCHANGED <<value, buildVars, pickVars, engineVars, appVars>>

NextSem == Classify

SpecSem == InitSem /\ [][NextSem]_vars

----------------------------------------------------------------------------
(* Specification SpecBuild: the healing loop.  A pick reads back an        *)
(* element and its ancestor chain and builds a selector with the current   *)
(* blacklist; when the stored selector later fails, analyze_failure        *)
(* queries the page and returns the blacklist of the next pick.            *)

\* attribute values: semantic ones, one for each rule, and a random one
V_ok  == <<"o","k">>
V_nm  == <<"n","m">>
V_ti  == <<"t","i">>
V_cy  == <<"c","y">>
V_go  == <<"g","o">>
V_x9  == <<"x","9">>
Absent == <<>>

\* the values each attribute of a picked element can have (Absent: no such
\* attribute)
TargetAttrValues ==
    [a \in {A_id, A_name, A_testid, A_cy, A_type} |->
        CASE a = A_id     -> {Absent, V_ok, V_x9}
          [] a = A_name   -> {Absent, V_nm}
          [] a = A_testid -> {Absent, V_ti}
          [] a = A_cy     -> {Absent, V_cy}
          [] a = A_type   -> {Absent, V_x9}]

\* the dict of the attributes that are present
Dict(g) == [a \in {b \in DOMAIN g : g[b] # Absent} |-> g[a]]

\* most attributes a picked element carries
MaxAttrs == 2

TargetAttrs ==
    {d \in {Dict(g) : g \in {h \in [DOMAIN TargetAttrValues ->
                                      {Absent, V_ok, V_nm, V_ti, V_cy, V_x9}] :
                               \A a \in DOMAIN h : h[a] \in TargetAttrValues[a]}} :
        Cardinality(DOMAIN d) <= MaxAttrs}

\* the picked elements: an anchor with or without text, or a text-less input
Targets ==
    {[tagName |-> t, attributes |-> at, textContent |-> tx] :
        t \in {T_a}, at \in TargetAttrs, tx \in {<<>>, V_go}}
    \cup
    {[tagName |-> T_input, attributes |-> at, textContent |-> <<>>] :
        at \in TargetAttrs}

\* the class attribute "x9 ok": a random token before a semantic one
V_x9_ok == V_x9 \o <<" ">> \o V_ok

\* the elements an ancestor chain is made of
AncestorPool ==
    { [tagName |-> T_form, attributes |-> <<>>, textContent |-> <<>>],
      [tagName |-> T_div,  attributes |-> (A_id :> V_ok), textContent |-> <<>>],
      [tagName |-> T_div,  attributes |-> (A_class :> V_ok), textContent |-> <<>>],
      [tagName |-> T_div,  attributes |-> (A_class :> V_x9_ok), textContent |-> <<>>] }

\* longest ancestor chain
MaxAncestors == 2

RECURSIVE ChainsUpTo(_)
ChainsUpTo(n) ==
    IF n = 0 THEN {<<>>}
    ELSE LET shorter == ChainsUpTo(n - 1)
         IN  shorter \cup {Append(c, a) : c \in shorter, a \in AncestorPool}

AncestorChains == ChainsUpTo(MaxAncestors)

\* blacklists a caller hands to the first pick
InitBlacklists ==
    { <<>>,
      <<[element |-> T_input, attribute |-> A_id,   value |-> V_ok]>>,
      <<[element |-> T_a,     attribute |-> A_name, value |-> V_nm]>>,
      <<[element |-> T_div,   attribute |-> A_id,   value |-> V_ok],
        [element |-> T_a,     attribute |-> A_id,   value |-> V_ok]>> }

InitBuild ==
    /\ AppIdle
    /\ value = <<>> /\ semResult = <<>>
    /\ blacklist \in InitBlacklists
    /\ target = NoElement /\ ancestors = <<>> /\ selector = <<>>
    /\ failedXpath = <<>> /\ answers = <<>> /\ analysis = <<>>
    /\ phase = "idle"
    /\ PickIdle
    /\ EngineIdle

\* steps 3 and 4 of a pick: the clicked element and its ancestors are read
\* back and _build_unique_xpath is called with self.blacklist
Build ==
    /\ phase \in {"idle", "healing"}
    /\ \E t \in Targets, ancs \in AncestorChains :
          /\ target' = t
          /\ ancestors' = ancs
          /\ selector' = _build_unique_xpath(blacklist, t, ancs)
    /\ phase' = IF phase = "idle" THEN "built" ELSE "rebuilt"
    /\ UNCHANGED <<blacklist, failedXpath, answers, analysis, semVars, pickVars, engineVars, appVars>>

\* the stored selector failed: _attempt_healing calls analyze_failure with
\* it against the live page; the picker that built it is gone
Analyze ==
    /\ phase \in {"built", "rebuilt"}
    /\ \E answer \in [QueriedSelectors(selector) -> QueryOutcomes] :
          /\ answers' = answer
          /\ analysis' = analyze_failure(selector, answer)
    /\ failedXpath' = selector
    /\ blacklist' = <<>>
    /\ target' = NoElement /\ ancestors' = <<>> /\ selector' = <<>>
    /\ phase' = "analyzed"
    /\ UNCHANGED <<semVars, pickVars, engineVars, appVars>>

\* healing is available (the analysis is not empty): the picker is invoked
\* again with the returned blacklist, self.blacklist = blacklist or []
BeginHealingPick ==
    /\ phase = "analyzed"
    /\ analysis # <<>>
    /\ blacklist' = analysis
    /\ failedXpath' = <<>> /\ answers' = <<>> /\ analysis' = <<>>
    /\ phase' = "healing"
    /\ UNCHANGED <<target, ancestors, selector, semVars, pickVars, engineVars, appVars>>

NextBuild == Build \/ Analyze \/ BeginHealingPick

SpecBuild == InitBuild /\ [][NextBuild]_vars

----------------------------------------------------------------------------
(* C10: the classifier against the five whole-string patterns              *)

AllIn(s, S) == \A i \in 1..Len(s) : s[i] \in S

\* lower-case runs joined by single separators: ^[a-z]+(<sep>[a-z]+)+$
Joined(s, sep) ==
    /\ AllIn(s, LowerChars \cup {sep})
    /\ \E i \in 1..Len(s) : s[i] = sep
    /\ s[1] # sep /\ s[Len(s)] # sep
    /\ \A i \in 1..(Len(s) - 1) : ~(s[i] = sep /\ s[i + 1] = sep)

\* the whole string is in the language of one of the five patterns of the
\* classifier's contract
WholeStringPattern(s) ==
    /\ s # <<>>
    /\ \/ AllIn(s, LowerChars)
       \/ Joined(s, "-")
       \/ Joined(s, "_")
       \/ (/\ AllIn(s, LowerChars \cup UpperChars)
           /\ s[1] \in LowerChars
           /\ \E i \in 1..Len(s) : s[i] \in UpperChars)
       \/ (/\ AllIn(s, LowerChars \cup UpperChars)
           /\ Len(s) >= 2 /\ s[1] \in UpperChars /\ s[2] \in LowerChars)

ContractIsSemantic(s) ==
    /\ Len(s) >= 2 /\ Len(s) <= 30
    /\ WholeStringPattern(s)

\* C10: is_semantic(value) is false for an empty, too short (< 2) or too long
\* (> 30) value and otherwise true exactly when the whole string matches one
\* of the five patterns; repeated calls on the same string agree.
C10_WholeStringClassifier ==
    \A i \in 1..Len(semResult) : semResult[i] = ContractIsSemantic(value)

----------------------------------------------------------------------------
(* C5 - C9: the candidate builder                                          *)

EndsWith(s, suffix) ==
    /\ Len(suffix) <= Len(s)
    /\ SubSeq(s, Len(s) - Len(suffix) + 1, Len(s)) = suffix

\* the predicate [@id="v"]
IdPredicate(v) == <<"[","@">> \o A_id \o <<"=",DQ>> \o v \o <<DQ,"]">>

\* a pick has returned a selector
Built == phase \in {"built", "rebuilt"}

InBlacklist(tag, attr, v) ==
    \E i \in 1..Len(blacklist) :
        blacklist[i] = [element |-> tag, attribute |-> attr, value |-> v]

\* the attribute of the target is present, semantic and not blacklisted
CleanOnTarget(attr) ==
    /\ attr \in DOMAIN target.attributes
    /\ ContractIsSemantic(target.attributes[attr])
    /\ ~ InBlacklist(target.tagName, attr, target.attributes[attr])

\* the end of the selector the rules of the contract prescribe for the
\* target: the first applicable rule of  id, name, data-testid, data-cy,
\* data-test, data-automation, data-qa, text, type, tag
ExpectedBaseEnd ==
    LET tag == target.tagName
        at  == target.attributes
    IN  IF CleanOnTarget(A_id) THEN IdPredicate(at[A_id])
        ELSE IF CleanOnTarget(A_name) THEN FmtAttr(tag, A_name, at[A_name])
        ELSE IF CleanOnTarget(A_testid) THEN FmtAttr(tag, A_testid, at[A_testid])
        ELSE IF CleanOnTarget(A_cy) THEN FmtAttr(tag, A_cy, at[A_cy])
        ELSE IF CleanOnTarget(A_test) THEN FmtAttr(tag, A_test, at[A_test])
        ELSE IF CleanOnTarget(A_auto) THEN FmtAttr(tag, A_auto, at[A_auto])
        ELSE IF CleanOnTarget(A_qa) THEN FmtAttr(tag, A_qa, at[A_qa])
        ELSE IF /\ tag \in {T_button, T_a, T_span, T_label}
                /\ Len(target.textContent) < 50
                /\ ContractIsSemantic(target.textContent)
             THEN FmtText(tag, target.textContent)
        ELSE IF A_type \in DOMAIN at THEN FmtAttr(tag, A_type, at[A_type])
        ELSE FmtTag(tag)

\* C5: the base selector (the last step of the result) comes from the first
\* applicable rule in the order clean id, clean name, clean test attribute
\* (data-testid, data-cy, data-test, data-automation, data-qa), stable text,
\* raw type, bare tag; with a clean id and a clean name it is the id's.
C5_FirstApplicableRuleIsBase ==
    Built => EndsWith(selector, ExpectedBaseEnd)

\* a target with a clean id and a clean name was built and got the id step
C5_Witness ==
    /\ Built
    /\ CleanOnTarget(A_id) /\ CleanOnTarget(A_name)
    /\ EndsWith(selector, IdPredicate(target.attributes[A_id]))

\* the number of // in a selector
StepCount(s) ==
    Cardinality({i \in 1..(Len(s) - 1) : s[i] = "/" /\ s[i + 1] = "/"})

\* C6: when the base selector comes from rule 1 (clean, non-blacklisted id)
\* the result is the base selector alone, whatever the ancestor chain; a
\* prefix is prepended only when the base rule is not rule 1.
C6_CleanIdHasNoAncestorPrefix ==
    (Built /\ CleanOnTarget(A_id)) => StepCount(selector) = 1

\* C7: every selector is an XPath of the specified shapes: every // is
\* followed by a node test (* or a tag name), and an id step is written
\* //*[@id="<id>"].
C7_EverySlashSlashHasNodeTest ==
    Built =>
        \A i \in 1..(Len(selector) - 1) :
            (selector[i] = "/" /\ selector[i + 1] = "/") =>
                /\ i + 2 <= Len(selector)
                /\ selector[i + 2] \in WordChars \cup {"*"}

\* the id of the target is blacklisted for the target's tag
TargetIdBlacklisted ==
    /\ A_id \in DOMAIN target.attributes
    /\ InBlacklist(target.tagName, A_id, target.attributes[A_id])

\* C8 as stated: if (target tag, id, the target's id value) is blacklisted
\* the result contains no predicate on that id and the base comes from the
\* next applicable rule.
C8_BlacklistedIdNowhereInSelector ==
    (Built /\ TargetIdBlacklisted) =>
        /\ ~ Contains(selector, IdPredicate(target.attributes[A_id]))
        /\ EndsWith(selector, ExpectedBaseEnd)

\* C8 amended: if (target tag, id, the target's id value) is blacklisted the
\* step of the target is not the id step but the one of the next applicable
\* rule, and the id predicate occurs in the result only as the prefix taken
\* from an ancestor of another tag that carries the same id value.
C8_BlacklistedIdNotUsedForTarget ==
    (Built /\ TargetIdBlacklisted) =>
        LET v == target.attributes[A_id] IN
        /\ ~ EndsWith(selector, IdPredicate(v))
        /\ EndsWith(selector, ExpectedBaseEnd)
        /\ Contains(selector, IdPredicate(v)) =>
              \E i \in 1..Len(ancestors) :
                  /\ ancestors[i].tagName # target.tagName
                  /\ A_id \in DOMAIN ancestors[i].attributes
                  /\ ancestors[i].attributes[A_id] = v

\* a target whose semantic id is blacklisted was built from its name
C8_Witness ==
    /\ Built /\ TargetIdBlacklisted
    /\ ContractIsSemantic(target.attributes[A_id])
    /\ CleanOnTarget(A_name)
    /\ EndsWith(selector,
                FmtAttr(target.tagName, A_name, target.attributes[A_name]))

\* the step a blacklist entry stands for
EntryStep(e) ==
    IF e.attribute = A_text THEN FmtText(e.element, e.value)
    ELSE IF e.attribute = A_class THEN FmtClass(e.element, e.value)
    ELSE FmtAttr(e.element, e.attribute, e.value)

\* C9: in the healing loop no entry (tag, attribute, value) that analyze
\* returned - text, type and class tokens included - is emitted again, as a
\* predicate on that attribute with that value for an element of that tag,
\* by the build that follows with that blacklist.
C9_HealingBuildAvoidsAnalyzedEntries ==
    phase = "rebuilt" =>
        \A i \in 1..Len(blacklist) : ~ Contains(selector, EntryStep(blacklist[i]))

----------------------------------------------------------------------------
(* Interactive element picker: the three ElementPicker.pick_element        *)
(* implementations ("basic": element_picker.py, "clean":                   *)
(* element_picker_clean.py, "toggle": element_picker_toggle.py) against    *)
(* one Playwright page.  The page is the DOM and window state the injected *)
(* scripts work on: the overlay elements with id element-picker-overlay    *)
(* in document order, the mouseover/mouseout/click listener groups         *)
(* registered on document in registration order, the overlays currently    *)
(* displayed, and the window variables.  Every injection is numbered, so   *)
(* that an overlay or a listener group is known by the injection that      *)
(* created it.                                                             *)

Undef == -1     \* a window variable that does not exist
Null  == 0      \* null; 1.. are elements of the page

FreshPage ==
    [overlays     |-> <<>>,      \* overlay elements in the DOM
     shown        |-> {},        \* overlays with display: block
     listeners    |-> <<>>,      \* listener groups registered on document
     winActive    |-> "undef",   \* window.elementPickerActive
     winClicked   |-> Undef,     \* window.clickedElement
     winListeners |-> 0,         \* window.pickerListeners (0: undefined)
     ep           |-> FALSE,     \* window.elementPicker exists
     epActive     |-> FALSE,     \* window.elementPicker.active
     epClicked    |-> Null,      \* window.elementPicker.clickedElement
     epOverlay    |-> 0,         \* window.elementPicker.overlay (0: null)
     epListeners  |-> 0]         \* window.elementPicker.listeners (0: {})

\* document.getElementById('element-picker-overlay')?.remove()
RemoveFirstOverlay(p) ==
    IF p.overlays = <<>> THEN p
    ELSE [p EXCEPT !.overlays = Tail(@), !.shown = @ \ {Head(p.overlays)}]

\* overlay.remove() on the overlay element created by injection g
RemoveOverlay(p, g) ==
    [p EXCEPT !.overlays = SelectSeq(@, LAMBDA o : o # g), !.shown = @ \ {g}]

\* document.removeEventListener for the three functions of group g
RemoveListeners(p, g) ==
    [p EXCEPT !.listeners = SelectSeq(@, LAMBDA l : l.gen # g)]

\* the script pick_element of element_picker.py injects
BasicInjectScript(p, g) ==
    [p EXCEPT !.winActive = "true",
              !.overlays  = Append(@, g),
              !.listeners = Append(@, [gen |-> g, kind |-> "anon"])]

\* the clean-up script of element_picker.py on the success path
BasicCleanupScript(p) ==
    LET q == IF p.winListeners # 0
             THEN [RemoveListeners(p, p.winListeners) EXCEPT !.winListeners = 0]
             ELSE p
    IN  RemoveFirstOverlay([q EXCEPT !.winClicked = Undef, !.winActive = "undef"])

\* the clean-up script of element_picker.py in the except branch
BasicErrorCleanupScript(p) ==
    [p EXCEPT !.winActive = "false", !.winClicked = Undef]

\* step 1 of element_picker_clean.py
CleanSlateScript(p) ==
    [RemoveFirstOverlay(p) EXCEPT !.winActive = "undef", !.winClicked = Undef,
                                 !.winListeners = 0]

\* step 2 of element_picker_clean.py
CleanInjectScript(p, g) ==
    LET q == RemoveFirstOverlay(p)
    IN  [q EXCEPT !.winActive    = "true",
                  !.winClicked   = Null,
                  !.overlays     = Append(@, g),
                  !.winListeners = g,
                  !.listeners    = Append(@, [gen |-> g, kind |-> "stored"])]

\* step 5 and the emergency clean-up of element_picker_clean.py
CleanCleanupScript(p) ==
    LET q == IF p.winListeners # 0 THEN RemoveListeners(p, p.winListeners) ELSE p
    IN  [RemoveFirstOverlay(q) EXCEPT !.winActive = "undef", !.winClicked = Undef,
                                     !.winListeners = 0]

\* _inject_picker of element_picker_toggle.py: defines window.elementPicker
ToggleInjectScript(p) ==
    [p EXCEPT !.ep = TRUE, !.epActive = FALSE, !.epClicked = Null,
              !.epOverlay = 0, !.epListeners = 0]

\* window.elementPicker.enable()
EpEnable(p, g) ==
    LET q == IF p.epOverlay = 0
             THEN [p EXCEPT !.epOverlay = g, !.overlays = Append(@, g)]
             ELSE p
    IN  [q EXCEPT !.epActive = TRUE, !.epClicked = Null, !.epListeners = g,
                  !.listeners = Append(@, [gen |-> g, kind |-> "toggle"])]

\* window.elementPicker.disable()
EpDisable(p) ==
    LET q == [p EXCEPT !.epActive = FALSE, !.shown = @ \ {p.epOverlay}]
    IN  IF q.epListeners # 0 THEN RemoveListeners(q, q.epListeners) ELSE q

\* step 2 of element_picker_toggle.py: enable if window.elementPicker exists
ToggleEnableScript(p, g) == IF p.ep THEN EpEnable(p, g) ELSE p

\* step 5 and the except branch of element_picker_toggle.py
ToggleDisableScript(p) == IF p.ep THEN EpDisable(p) ELSE p

\* the listener group is registered and its "active" test passes
ActiveGroup(p, l) ==
    IF l.kind = "toggle" THEN p.epActive ELSE p.winActive = "true"

\* a click on the page would be captured
CaptureArmed(p) == \E i \in 1..Len(p.listeners) : ActiveGroup(p, p.listeners[i])

\* the overlay a listener group displays
OverlayOf(p, l) == IF l.kind = "toggle" THEN p.epOverlay ELSE l.gen

\* a click event on element k: the click listeners run in registration
\* order; the first one deactivates the picker, so the others return early
ClickEvent(p, k) ==
    IF ~ CaptureArmed(p) THEN p
    ELSE LET first == CHOOSE i \in 1..Len(p.listeners) :
                          /\ ActiveGroup(p, p.listeners[i])
                          /\ \A j \in 1..(i - 1) : ~ ActiveGroup(p, p.listeners[j])
             l == p.listeners[first]
         IN
         CASE l.kind = "anon" ->
                RemoveOverlay([p EXCEPT !.winClicked = k, !.winActive = "false"],
                              l.gen)
           [] l.kind = "stored" ->
                [p EXCEPT !.winClicked = k, !.winActive = "false"]
           [] l.kind = "toggle" ->
                EpDisable([p EXCEPT !.epClicked = k])

\* a mouseover event: every active group displays its overlay
MouseOverEvent(p) ==
    [p EXCEPT !.shown = @ \cup
        {o \in {OverlayOf(p, p.listeners[i]) :
                   i \in {j \in 1..Len(p.listeners) : ActiveGroup(p, p.listeners[j])}} :
            \E m \in 1..Len(p.overlays) : p.overlays[m] = o}]

\* a mouseout event: every active group hides its overlay
MouseOutEvent(p) ==
    [p EXCEPT !.shown = @ \
        {OverlayOf(p, p.listeners[i]) :
            i \in {j \in 1..Len(p.listeners) : ActiveGroup(p, p.listeners[j])}}]

\* the value wait_for_function polls: window.clickedElement, or
\* window.elementPicker && window.elementPicker.clickedElement
ClickedValue(v, p) ==
    IF v = "toggle" THEN (IF p.ep THEN p.epClicked ELSE Undef) ELSE p.winClicked

\* str(e) of the exceptions Playwright raises
TimeoutMessage   == "Timeout 30000ms exceeded."
PageErrorMessage == "Target page, context or browser has been closed"

\* the dict of the except branch with the message not prefixed
FailureResultBareMessage(msg) ==
    [success |-> FALSE, selector |-> <<>>, method |-> "xpath", error |-> msg]

\* the dict the except branch of pick_element returns
FailureResult(msg) ==
    [success |-> FALSE, selector |-> <<>>, method |-> "xpath",
     error |-> "Error in element picking: " \o msg]

\* the dict pick_element returns after step 5; error None is "None"
SuccessResult(xpath) ==
    [success |-> TRUE, selector |-> xpath, method |-> "xpath", error |-> "None"]

\* the fallback of generate_smart_xpath_from_handle
BodyXPath == SlashSlash \o T_body

----------------------------------------------------------------------------
(* Specification SpecPick: pick_element calls on one page, with the user's *)
(* mouse events, navigations between calls and page operations that raise  *)

\* pick_element calls made on the page
MaxPicks == 2

\* the elements of the page the user can click: an input with id and name
\* inside a form, and a link with text inside a div
PickElements == <<
    [el   |-> [tagName |-> T_input,
               attributes |-> (A_id :> V_ok) @@ (A_name :> V_nm),
               textContent |-> <<>>],
     ancs |-> <<[tagName |-> T_form, attributes |-> <<>>, textContent |-> <<>>]>>],
    [el   |-> [tagName |-> T_a, attributes |-> <<>>, textContent |-> V_go],
     ancs |-> <<[tagName |-> T_div, attributes |-> (A_class :> V_ok),
                 textContent |-> <<>>]>>] >>

\* the blacklists handed to pick_element
PickBlacklists ==
    { <<>>, <<[element |-> T_input, attribute |-> A_id, value |-> V_ok]>> }

Variants == {"basic", "clean", "toggle"}

InitPick ==
    /\ AppIdle
    /\ value = <<>> /\ semResult = <<>>
    /\ BuildIdle
    /\ variant \in Variants
    /\ pc = "idle"
    /\ page = FreshPage
    /\ injectedPages = FALSE
    /\ result = NoResult
    /\ hist = NoHist
    /\ EngineIdle

buildRest == <<failedXpath, answers, analysis, phase>>

\* pick_element is called: self.blacklist = blacklist or []; the toggle
\* picker tests id(page) in _picker_injected_pages
StartPick ==
    /\ pc \in {"idle", "done"}
    /\ hist.n < MaxPicks
    /\ blacklist' \in PickBlacklists
    /\ hist' = [NoHist EXCEPT !.n = hist.n + 1]
    /\ result' = NoResult
    /\ target' = NoElement /\ ancestors' = <<>> /\ selector' = <<>>
    /\ pc' = CASE variant = "basic"  -> "title"
               [] variant = "clean"  -> "slate"
               [] variant = "toggle" -> IF injectedPages THEN "enable" ELSE "inject"
    /\ UNCHANGED <<variant, page, injectedPages, buildRest, semVars, engineVars, appVars>>

\* element_picker.py: await page.title()
Title ==
    /\ variant = "basic" /\ pc = "title"
    /\ pc' = "inject"
    /\ UNCHANGED <<variant, page, injectedPages, result, hist, buildVars, semVars, engineVars, appVars>>

\* element_picker_clean.py step 1
Slate ==
    /\ variant = "clean" /\ pc = "slate"
    /\ page' = CleanSlateScript(page)
    /\ pc' = "inject"
    /\ UNCHANGED <<variant, injectedPages, result, hist, buildVars, semVars, engineVars, appVars>>

\* await page.add_script_tag(...) of the three pickers
Inject ==
    /\ pc = "inject"
    /\ page' = CASE variant = "basic"  -> BasicInjectScript(page, hist.n)
                 [] variant = "clean"  -> CleanInjectScript(page, hist.n)
                 [] variant = "toggle" -> ToggleInjectScript(page)
    /\ injectedPages' = IF variant = "toggle" THEN TRUE ELSE injectedPages
    /\ pc' = CASE variant = "basic"  -> "check"
               [] variant = "clean"  -> "wait"
               [] variant = "toggle" -> "enable"
    /\ hist' = [hist EXCEPT !.armedAtWait =
                   IF variant = "clean" THEN CaptureArmed(page') ELSE @]
    /\ UNCHANGED <<variant, result, buildVars, semVars, engineVars, appVars>>

\* element_picker.py: await page.evaluate("window.elementPickerActive")
CheckActive ==
    /\ variant = "basic" /\ pc = "check"
    /\ pc' = "wait"
    /\ hist' = [hist EXCEPT !.armedAtWait = CaptureArmed(page)]
    /\ UNCHANGED <<variant, page, injectedPages, result, buildVars, semVars, engineVars, appVars>>

\* element_picker_toggle.py step 2
Enable ==
    /\ variant = "toggle" /\ pc = "enable"
    /\ page' = ToggleEnableScript(page, hist.n)
    /\ pc' = "wait"
    /\ hist' = [hist EXCEPT !.armedAtWait = CaptureArmed(page')]
    /\ UNCHANGED <<variant, injectedPages, result, buildVars, semVars, engineVars, appVars>>

\* wait_for_function returns: the polled value is an element
WaitReturns ==
    /\ pc = "wait"
    /\ ClickedValue(variant, page) > Null
    /\ pc' = IF variant = "basic" THEN "has" ELSE "handle"
    /\ UNCHANGED <<variant, page, injectedPages, result, hist, buildVars, semVars, engineVars, appVars>>

\* wait_for_function raises TimeoutError after timeout=30000 without a
\* captured click
WaitTimesOut ==
    /\ pc = "wait"
    /\ ClickedValue(variant, page) <= Null
    /\ hist' = [hist EXCEPT !.timedOut = TRUE, !.exc = TimeoutMessage]
    /\ pc' = "except"
    /\ UNCHANGED <<variant, page, injectedPages, result, buildVars, semVars, engineVars, appVars>>

\* element_picker.py: await page.evaluate("!!window.clickedElement")
HasClicked ==
    /\ variant = "basic" /\ pc = "has"
    /\ pc' = "handle"
    /\ UNCHANGED <<variant, page, injectedPages, result, hist, buildVars, semVars, engineVars, appVars>>

\* await page.evaluate_handle(<the clicked element>)
GetHandle ==
    /\ pc = "handle"
    /\ hist' = [hist EXCEPT !.handle = ClickedValue(variant, page)]
    /\ pc' = "xpath"
    /\ UNCHANGED <<variant, page, injectedPages, result, buildVars, semVars, engineVars, appVars>>

\* generate_smart_xpath_from_handle: the element and its ancestors are read
\* back and _build_unique_xpath is called
GenerateXPath ==
    /\ pc = "xpath"
    /\ hist.handle \in 1..Len(PickElements)
    /\ target' = PickElements[hist.handle].el
    /\ ancestors' = PickElements[hist.handle].ancs
    /\ selector' = _build_unique_xpath(blacklist, target', ancestors')
    /\ pc' = "cleanup"
    /\ UNCHANGED <<variant, page, injectedPages, result, hist, blacklist,
                   buildRest, semVars, engineVars, appVars>>

\* generate_smart_xpath_from_handle: element_handle.evaluate raises; the
\* exception is caught there and "//body" is returned
GenerateXPathFallsBack ==
    /\ pc = "xpath"
    /\ selector' = BodyXPath
    /\ hist' = [hist EXCEPT !.pageError = TRUE]
    /\ pc' = "cleanup"
    /\ UNCHANGED <<variant, page, injectedPages, result, blacklist, target,
                   ancestors, buildRest, semVars, engineVars, appVars>>

\* step 5: the clean-up (disable) script runs and the success dict is
\* returned
Cleanup ==
    /\ pc = "cleanup"
    /\ page' = CASE variant = "basic"  -> BasicCleanupScript(page)
                 [] variant = "clean"  -> CleanCleanupScript(page)
                 [] variant = "toggle" -> ToggleDisableScript(page)
    /\ hist' = [hist EXCEPT !.cleanupAttempted = TRUE]
    /\ result' = SuccessResult(selector)
    /\ pc' = "done"
    /\ UNCHANGED <<variant, injectedPages, buildVars, semVars, engineVars, appVars>>

\* the awaits of the try block that reach the except branch when they raise
RaisingSteps ==
    {"title", "slate", "inject", "check", "enable", "wait", "has", "handle",
     "cleanup"}

\* a page operation of the try block raises
PageOpRaises ==
    /\ pc \in RaisingSteps
    /\ hist' = [hist EXCEPT !.exc = PageErrorMessage,
                            !.pageError = IF pc = "cleanup" THEN @ ELSE TRUE,
                            !.cleanupAttempted = IF pc = "cleanup" THEN TRUE ELSE @,
                            !.cleanupRaised = IF pc = "cleanup" THEN TRUE ELSE @]
    /\ pc' = "except"
    /\ UNCHANGED <<variant, page, injectedPages, result, buildVars, semVars, engineVars, appVars>>

\* the except branch: the clean-up script runs, the failure dict is returned
ExceptCleanup ==
    /\ pc = "except"
    /\ page' = CASE variant = "basic"  -> BasicErrorCleanupScript(page)
                 [] variant = "clean"  -> CleanCleanupScript(page)
                 [] variant = "toggle" -> ToggleDisableScript(page)
    /\ hist' = [hist EXCEPT !.cleanupAttempted = TRUE]
    /\ result' = FailureResult(hist.exc)
    /\ pc' = "done"
    /\ UNCHANGED <<variant, injectedPages, buildVars, semVars, engineVars, appVars>>

\* the except branch: the clean-up raises too and is swallowed
ExceptCleanupRaises ==
    /\ pc = "except"
    /\ hist' = [hist EXCEPT !.cleanupAttempted = TRUE, !.cleanupRaised = TRUE]
    /\ result' = FailureResult(hist.exc)
    /\ pc' = "done"
    /\ UNCHANGED <<variant, page, injectedPages, buildVars, semVars, engineVars, appVars>>

\* the user clicks an element while a click listener is active
UserClick ==
    /\ pc # "off"
    /\ CaptureArmed(page)
    /\ \E k \in 1..Len(PickElements) :
          /\ page' = ClickEvent(page, k)
          /\ hist' = [hist EXCEPT !.captured = @ \cup {k}]
    /\ UNCHANGED <<variant, pc, injectedPages, result, buildVars, semVars, engineVars, appVars>>

\* the user moves the mouse over an element or away from it
MouseMove ==
    /\ pc # "off"
    /\ \E ev \in {"mouseover", "mouseout"} :
          page' = IF ev = "mouseover" THEN MouseOverEvent(page)
                  ELSE MouseOutEvent(page)
    /\ page' # page
    /\ UNCHANGED <<variant, pc, injectedPages, result, hist, buildVars, semVars, engineVars, appVars>>

\* between two calls the page navigates: a new document and window, the same
\* Page object
Navigate ==
    /\ pc \in {"idle", "done"}
    /\ page' = FreshPage
    /\ UNCHANGED <<variant, pc, injectedPages, result, hist, buildVars, semVars, engineVars, appVars>>

NextPick ==
    \/ StartPick \/ Title \/ Slate \/ Inject \/ CheckActive \/ Enable
    \/ WaitReturns \/ WaitTimesOut \/ HasClicked \/ GetHandle
    \/ GenerateXPath \/ GenerateXPathFallsBack \/ Cleanup
    \/ PageOpRaises \/ ExceptCleanup \/ ExceptCleanupRaises
    \/ UserClick \/ MouseMove \/ Navigate

SpecPick == InitPick /\ [][NextPick]_vars

----------------------------------------------------------------------------
(* C1 - C4: the picker protocol                                            *)

\* pick_element has returned
Returned == pc = "done"

\* C1: after any call to pick - success, timeout or page error - the page
\* holds no picker overlay element and no picker mouseover/mouseout/click
\* listener is registered on the document (stated for the calls whose
\* clean-up script reached the page).
C1_NoOverlayNoListenerAfterPick ==
    (Returned /\ ~ hist.cleanupRaised) =>
        /\ page.overlays = <<>>
        /\ page.listeners = <<>>

\* C2: every call of a sequence of picks on the same page, navigations in
\* between included, arms capture afresh: while the call waits, a click is
\* captured (or already was, in this call), and a call whose click was
\* captured before the timeout and whose page operations all worked returns
\* success with the selector of the clicked element.
C2_EveryCallArmsCapture ==
    /\ pc = "wait" => (CaptureArmed(page) \/ hist.captured # {})
    /\ (Returned /\ hist.captured # {} /\ ~ hist.timedOut /\ ~ hist.pageError
          /\ ~ hist.cleanupRaised) =>
          /\ result.success
          /\ \E k \in hist.captured :
                result.selector =
                    _build_unique_xpath(blacklist, PickElements[k].el,
                                        PickElements[k].ancs)

\* C3: if a page operation fails while pick is arming capture, waiting,
\* reading back the clicked element or building the selector, pick returns
\* success=false with a non-empty error message and no selector, and the
\* clean-up was attempted.
C3_PageErrorMeansFailure ==
    (Returned /\ hist.pageError) =>
        /\ ~ result.success
        /\ result.error \notin {"", "None"}
        /\ result.selector = <<>>
        /\ hist.cleanupAttempted

\* C4 as stated: when no click is captured before the timeout, pick returns
\* success=false with error equal to "timeout" and an empty selector.
C4_TimeoutErrorIsTimeout ==
    (Returned /\ hist.timedOut) =>
        /\ ~ result.success
        /\ result.error = "timeout"
        /\ result.selector = <<>>

\* C4 amended: when no click is captured before the timeout, pick returns
\* success=false with an empty selector and the error "Error in element
\* picking: " followed by the message of the page's timeout exception.
C4_TimeoutReturnsPrefixedError ==
    (Returned /\ hist.timedOut) =>
        /\ ~ result.success
        /\ result.error = "Error in element picking: " \o TimeoutMessage
        /\ result.error # ""
        /\ result.selector = <<>>

\* a call timed out without a captured click and has returned
C4_Witness ==
    /\ Returned /\ hist.timedOut /\ hist.captured = {}
    /\ ~ result.success

----------------------------------------------------------------------------
(* Template resolvers: resolve_expression of template_processing.py and    *)
(* TemplateEvaluator of template_evaluator.py                              *)

SQ == "'"
Quotes == {SQ, DQ}

\* a cell of the data row is a Python str or a Python int
StrVal(s) == [kind |-> "str", s |-> s, n |-> 0]
IntVal(n) == [kind |-> "int", s |-> <<>>, n |-> n]

DigitOf == <<"0","1","2","3","4","5","6","7","8","9">>

RECURSIVE Decimal(_)
\* the decimal digits of a natural number
Decimal(n) ==
    IF n < 10 THEN <<DigitOf[n + 1]>>
    ELSE Decimal(n \div 10) \o <<DigitOf[(n % 10) + 1]>>

\* Python's str(v) for a cell
str(v) ==
    IF v.kind = "str" THEN v.s
    ELSE IF v.n < 0 THEN <<"-">> \o Decimal(0 - v.n) ELSE Decimal(v.n)

RECURSIVE SkipWs(_, _)
\* where a greedy \s* that starts at i stops
SkipWs(s, i) ==
    IF i <= Len(s) /\ s[i] \in Whitespace THEN SkipWs(s, i + 1) ELSE i

RECURSIVE SkipWsBack(_, _)
SkipWsBack(s, j) ==
    IF j >= 1 /\ s[j] \in Whitespace THEN SkipWsBack(s, j - 1) ELSE j

\* Python's s.strip()
strip(s) ==
    LET i == SkipWs(s, 1)
        j == SkipWsBack(s, Len(s))
    IN  IF i > j THEN <<>> ELSE SubSeq(s, i, j)

\* the first index >= i of s whose character is in S, or 0
RECURSIVE FirstIn(_, _, _)
FirstIn(s, i, S) ==
    IF i > Len(s) THEN 0
    ELSE IF s[i] \in S THEN i ELSE FirstIn(s, i + 1, S)

\* the last index in lo..hi of s whose character is c, or 0
RECURSIVE LastChar(_, _, _, _)
LastChar(s, lo, hi, c) ==
    IF hi < lo THEN 0
    ELSE IF s[hi] = c THEN hi ELSE LastChar(s, lo, hi - 1, c)

\* s has the literal lit at index i
HasAt(s, i, lit) ==
    /\ i >= 1 /\ i + Len(lit) - 1 <= Len(s)
    /\ SubSeq(s, i, i + Len(lit) - 1) = lit

\* r'\{\{([^}]+)\}\}' tried at index i: the index of the last brace of the
\* match, or 0.  [^}]+ runs to the first '}', which must open '}}'.
TEMPLATE_PATTERN(s, i) ==
    IF ~ HasAt(s, i, <<"{","{">>) THEN 0
    ELSE LET j == FirstIn(s, i + 2, {"}"})
         IN  IF j > i + 2 /\ HasAt(s, j, <<"}","}">>) THEN j + 1 ELSE 0

RECURSIVE ScanFrom(_, _, _)
\* the scan re.sub and finditer make with TEMPLATE_PATTERN: the string cut
\* into the matches (span, with group(1) as text) and the text between them
ScanFrom(s, i, lit) ==
    LET flush == IF lit = <<>> THEN <<>> ELSE <<[span |-> FALSE, text |-> lit]>>
    IN  IF i > Len(s) THEN flush
        ELSE LET e == TEMPLATE_PATTERN(s, i)
             IN  IF e = 0 THEN ScanFrom(s, i + 1, Append(lit, s[i]))
                 ELSE flush
                      \o <<[span |-> TRUE, text |-> SubSeq(s, i + 2, e - 2)]>>
                      \o ScanFrom(s, e + 1, <<>>)

Scan(s) == ScanFrom(s, 1, <<>>)

\* the keys of the row, in order
keys(row) == [i \in 1..Len(row) |-> row[i].name]

\* name in row_data
HasKey(row, name) == \E i \in 1..Len(row) : row[i].name = name

\* row_data[name] for a key of the row
Lookup(row, name) == row[CHOOSE i \in 1..Len(row) : row[i].name = name].value

RECURSIVE Digits2Nat(_, _)
Digits2Nat(ds, acc) ==
    IF ds = <<>> THEN acc
    ELSE Digits2Nat(Tail(ds),
                    10 * acc + ((CHOOSE k \in 1..10 : DigitOf[k] = Head(ds)) - 1))

\* the end of the run of characters of S that starts at i (i - 1 if empty)
RECURSIVE RunOf(_, _, _)
RunOf(s, i, S) ==
    IF i <= Len(s) /\ s[i] \in S THEN RunOf(s, i + 1, S) ELSE i - 1

NoMatch == [matched |-> FALSE, quote_char |-> "", param |-> <<>>]

\* re.match(r"col\s*\(\s*['\"]([^'\"]+)['\"]\s*\)", func_call): the closing
\* quote need not be the opening one; nothing anchors the end
ColNameMatch(fc) ==
    IF ~ HasAt(fc, 1, <<"c","o","l">>) THEN NoMatch
    ELSE LET p == SkipWs(fc, 4)
         IN  IF ~ HasAt(fc, p, <<"(">>) THEN NoMatch
             ELSE LET o == SkipWs(fc, p + 1)
                  IN  IF ~ (o <= Len(fc) /\ fc[o] \in Quotes) THEN NoMatch
                      ELSE LET q == FirstIn(fc, o + 1, Quotes)
                           IN  IF q > o + 1 /\ HasAt(fc, SkipWs(fc, q + 1), <<")">>)
                               THEN [matched |-> TRUE, quote_char |-> fc[o],
                                     param |-> SubSeq(fc, o + 1, q - 1)]
                               ELSE NoMatch

\* re.match(r"col\s*\(\s*(\d+)\s*\)", func_call)
ColIndexMatch(fc) ==
    IF ~ HasAt(fc, 1, <<"c","o","l">>) THEN NoMatch
    ELSE LET p == SkipWs(fc, 4)
         IN  IF ~ HasAt(fc, p, <<"(">>) THEN NoMatch
             ELSE LET o == SkipWs(fc, p + 1)
                      e == RunOf(fc, o, DigitChars)
                  IN  IF e >= o /\ HasAt(fc, SkipWs(fc, e + 1), <<")">>)
                      THEN [matched |-> TRUE, quote_char |-> "",
                            param |-> SubSeq(fc, o, e)]
                      ELSE NoMatch

U_UNKNOWN == <<"{","{","U","N","K","N","O","W","N",":"," ">>

\* replace_match reading the integer as a one-based position
ReplaceMatchOneBased(group1, row) ==
    LET func_call == strip(group1)
        col_match == ColNameMatch(func_call)
        col_idx_match == ColIndexMatch(func_call)
    IN  IF col_match.matched
        THEN IF HasKey(row, col_match.param)
             THEN str(Lookup(row, col_match.param)) ELSE <<>>
        ELSE IF col_idx_match.matched
        THEN LET idx == Digits2Nat(col_idx_match.param, 0)
             IN  IF idx >= 1 /\ idx <= Len(row) THEN str(row[idx].value) ELSE <<>>
        ELSE U_UNKNOWN \o func_call \o <<"}","}">>

\* replace_match of resolve_expression, on group(1) of one match
replace_match(group1, row) ==
    LET func_call == strip(group1)
        col_match == ColNameMatch(func_call)
        col_idx_match == ColIndexMatch(func_call)
    IN  IF col_match.matched
        THEN IF HasKey(row, col_match.param)
             THEN str(Lookup(row, col_match.param)) ELSE <<>>
        ELSE IF col_idx_match.matched
        THEN LET idx == Digits2Nat(col_idx_match.param, 0)
             IN  IF idx < Len(row) THEN str(row[idx + 1].value) ELSE <<>>
        ELSE U_UNKNOWN \o func_call \o <<"}","}">>

RECURSIVE JoinText(_)
JoinText(segs) == IF segs = <<>> THEN <<>> ELSE Head(segs) \o JoinText(Tail(segs))

\* resolve_expression(expression, row_data)
resolve_expression(expr, row) ==
    IF expr = <<>> \/ ~ Contains(expr, <<"{","{">>) THEN expr
    ELSE LET segs == Scan(expr)
         IN  JoinText([i \in 1..Len(segs) |->
                          IF segs[i].span THEN replace_match(segs[i].text, row)
                          ELSE segs[i].text])

\* COL_FUNCTION_PATTERN.match(e), r"col\s*\(\s*(['\"]?)([^'\"]+)\1\s*\)":
\* group(1) is the optional opening quote, which must close the parameter;
\* without a quote the greedy parameter ends just before the last ')' of
\* the run of non-quote characters, and when that run begins with the only
\* ')' the second \s* gives one whitespace character back to the parameter
COL_FUNCTION_PATTERN(e) ==
    IF ~ HasAt(e, 1, <<"c","o","l">>) THEN NoMatch
    ELSE LET p == SkipWs(e, 4)
         IN  IF ~ HasAt(e, p, <<"(">>) THEN NoMatch
             ELSE LET a == p + 1
                      o == SkipWs(e, a)
                  IN  IF o > Len(e) THEN NoMatch
                      ELSE IF e[o] \in Quotes
                      THEN LET q == FirstIn(e, o + 1, Quotes)
                           IN  IF /\ q > o + 1
                                  /\ e[q] = e[o]
                                  /\ HasAt(e, SkipWs(e, q + 1), <<")">>)
                               THEN [matched |-> TRUE, quote_char |-> e[o],
                                     param |-> SubSeq(e, o + 1, q - 1)]
                               ELSE NoMatch
                      ELSE LET nq == FirstIn(e, o, Quotes)
                               r  == IF nq = 0 THEN Len(e) ELSE nq - 1
                               P  == LastChar(e, o, r, ")")
                           IN  IF P > o
                               THEN [matched |-> TRUE, quote_char |-> "",
                                     param |-> SubSeq(e, o, P - 1)]
                               ELSE IF P = o /\ o > a
                               THEN [matched |-> TRUE, quote_char |-> "",
                                     param |-> <<e[o - 1]>>]
                               ELSE NoMatch

RECURSIVE IsDigitGroups(_, _)
\* digits, with single underscores allowed between digits
IsDigitGroups(s, i) ==
    IF i > Len(s) THEN FALSE
    ELSE IF s[i] \notin DigitChars THEN FALSE
    ELSE IF i = Len(s) THEN TRUE
    ELSE IF s[i + 1] = "_" THEN IsDigitGroups(s, i + 2)
    ELSE IsDigitGroups(s, i + 1)

\* Python's int(param) for a str: surrounding whitespace and a sign are
\* accepted; anything else raises ValueError (ok = FALSE)
int(param) ==
    LET t    == strip(param)
        sgn  == IF t # <<>> /\ t[1] \in {"+", "-"} THEN t[1] ELSE ""
        body == IF sgn = "" THEN t ELSE Tail(t)
        mag  == Digits2Nat(SelectSeq(body, LAMBDA c : c # "_"), 0)
    IN  IF IsDigitGroups(body, 1)
        THEN [ok |-> TRUE, n |-> IF sgn = "-" THEN 0 - mag ELSE mag]
        ELSE [ok |-> FALSE, n |-> 0]

NoCell == StrVal(<<>>)

\* TemplateEvaluator._evaluate_expression on the row df.iloc[row_index];
\* ok = FALSE is the ValueError raised, cause and arg its message
_evaluate_expression(expr, row) ==
    LET col_match == COL_FUNCTION_PATTERN(strip(expr))
    IN  IF col_match.matched
        THEN IF col_match.quote_char # ""
             THEN IF ~ HasKey(row, col_match.param)
                  THEN [ok |-> FALSE, value |-> NoCell,
                        cause |-> "Column '{}' not found", arg |-> col_match.param]
                  ELSE [ok |-> TRUE, value |-> Lookup(row, col_match.param),
                        cause |-> "", arg |-> <<>>]
             ELSE LET column_index == int(col_match.param)
                  IN  \* int() raising and the "out of range" ValueError are
                      \* both caught by  except ValueError  and replaced
                      IF \/ ~ column_index.ok
                         \/ column_index.n < 0
                         \/ column_index.n >= Len(row)
                      THEN [ok |-> FALSE, value |-> NoCell,
                            cause |-> "Invalid column index: {}",
                            arg |-> col_match.param]
                      ELSE [ok |-> TRUE, value |-> row[column_index.n + 1].value,
                            cause |-> "", arg |-> <<>>]
        ELSE [ok |-> FALSE, value |-> NoCell,
              cause |-> "Unsupported expression: {}", arg |-> expr]

\* TemplateEvaluator.is_template for a str
is_template(v) == \E i \in 1..Len(v) : TEMPLATE_PATTERN(v, i) # 0

NoDefault == [given |-> FALSE, s |-> <<>>]
Default(s) == [given |-> TRUE, s |-> s]

NoError == [text |-> "", expression |-> <<>>, cause |-> "", arg |-> <<>>]

\* what a resolver call produced: the string returned, or the exception
TplReturned(text) == [ok |-> TRUE, text |-> text, error |-> NoError]
TplRaised(error)  == [ok |-> FALSE, text |-> <<>>, error |-> error]

\* replace_expression of evaluate_template, on group(1) of one match
replace_expression(group1, row, dflt) ==
    LET expr == strip(group1)
        res  == _evaluate_expression(expr, row)
    IN  IF res.ok THEN TplReturned(str(res.value))
        ELSE IF dflt.given THEN TplReturned(dflt.s)
        ELSE TplRaised([text |-> "Template evaluation failed: {} - {}",
                      expression |-> expr, cause |-> res.cause, arg |-> res.arg])

\* TemplateEvaluator.evaluate_template(value, df, row_index, default_value):
\* the first replacement that raises ends the substitution
evaluate_template(v, row, dflt) ==
    IF ~ is_template(v) THEN TplReturned(v)
    ELSE LET segs == Scan(v)
             outs == [i \in 1..Len(segs) |->
                         IF segs[i].span
                         THEN replace_expression(segs[i].text, row, dflt)
                         ELSE TplReturned(segs[i].text)]
             bad  == {i \in 1..Len(segs) : ~ outs[i].ok}
         IN  IF bad = {}
             THEN TplReturned(JoinText([i \in 1..Len(segs) |-> outs[i].text]))
             ELSE outs[CHOOSE i \in bad : \A j \in bad : i <= j]

\* TemplateEvaluator._extract_columns_from_template
_extract_columns_from_template(template_value) ==
    LET segs == Scan(template_value)
        m(i) == COL_FUNCTION_PATTERN(strip(segs[i].text))
    IN  {m(i).param : i \in {k \in 1..Len(segs) :
                                /\ segs[k].span
                                /\ m(k).matched
                                /\ m(k).quote_char # ""}}

\* the sections and the fields extract_required_columns looks at
ScannedSections ==
    <<"initialization", "pre_loop_actions", "loop_actions", "post_loop_actions">>
ScannedFields == <<"value", "url", "selector">>

\* extract_from_actions of extract_required_columns
extract_from_actions(actions) ==
    LET templated(a) == {g \in DOMAIN a :
                            /\ \E k \in 1..Len(ScannedFields) : ScannedFields[k] = g
                            /\ is_template(a[g])}
        of(a) == UNION {_extract_columns_from_template(a[f]) : f \in templated(a)}
    IN  UNION {of(actions[i]) : i \in 1..Len(actions)}

\* TemplateEvaluator.extract_required_columns(task_config)
extract_required_columns(cfg) ==
    UNION {extract_from_actions(cfg[ScannedSections[k]]) :
              k \in {j \in 1..Len(ScannedSections) :
                        ScannedSections[j] \in DOMAIN cfg}}

----------------------------------------------------------------------------
(* Specification SpecTpl: both resolvers applied to bounded templates      *)

N_a  == <<"a">>
N_b  == <<"b">>
N_zz == <<"z","z">>

LitPart(text)     == [kind |-> "lit",  text |-> text, q |-> "", i |-> 0]
NamePart(q, name) == [kind |-> "name", text |-> name, q |-> q,  i |-> 0]
IdxPart(i)        == [kind |-> "idx",  text |-> <<>>, q |-> "", i |-> i]
BadPart(content)  == [kind |-> "bad",  text |-> content, q |-> "", i |-> 0]

\* the pieces templates are written from: text, {{col('<name>')}},
\* {{col(<i>)}} and spans that hold no col(...) expression
TemplateParts ==
    { LitPart(<<"H","i"," ">>), LitPart(<<"}">>),
      NamePart(SQ, N_a), NamePart(DQ, N_b), NamePart(SQ, N_zz),
      IdxPart(0), IdxPart(1), IdxPart(2), IdxPart(10), IdxPart(0 - 1),
      BadPart(<<"b","a","d">>),
      BadPart(<<"c","o","l","(","a",")">>),
      BadPart(<<"c","o","l","(",SQ,"a",SQ,")"," ","x">>),
      BadPart(<<"c","o","l","(",SQ,"a",DQ,")">>) }

\* the text of one piece
Render(part) ==
    CASE part.kind = "lit"  -> part.text
      [] part.kind = "name" ->
            <<"{","{","c","o","l","(">> \o <<part.q>> \o part.text
                \o <<part.q>> \o <<")","}","}">>
      [] part.kind = "idx"  ->
            <<"{","{","c","o","l","(">> \o str(IntVal(part.i)) \o <<")","}","}">>
      [] part.kind = "bad"  -> <<"{","{">> \o part.text \o <<"}","}">>

\* most pieces in one template
MaxParts == 2

RECURSIVE PartSeqsUpTo(_)
PartSeqsUpTo(n) ==
    IF n = 0 THEN {<<>>}
    ELSE LET shorter == PartSeqsUpTo(n - 1)
         IN  shorter \cup {Append(s, p) : s \in shorter, p \in TemplateParts}

Cell(name, v) == [name |-> name, value |-> v]

\* the rows: two string or integer columns; one column that is empty; a
\* cell that itself reads like a template
TplRows ==
    { <<Cell(N_a, StrVal(<<"A","n","n">>)), Cell(N_b, IntVal(7))>>,
      <<Cell(N_a, StrVal(<<>>))>>,
      <<Cell(N_b, StrVal(<<"{","{","c","o","l","(","0",")","}","}">>)),
        Cell(N_a, StrVal(<<"L","e","e">>))>> }

TplDefaults == {NoDefault, Default(<<"d","f","l","t">>)}

InitTpl ==
    /\ AppIdle
    /\ value = <<>> /\ semResult = <<>>
    /\ BuildIdle
    /\ PickIdle
    /\ tplParts \in PartSeqsUpTo(MaxParts)
    /\ expression = JoinText([i \in 1..Len(tplParts) |-> Render(tplParts[i])])
    /\ row_data \in TplRows
    /\ default_value \in TplDefaults
    /\ tplOut = <<>>
    /\ ColsIdle /\ ExecIdle /\ WaitIdle /\ RunIdle

Called(fn) == \E k \in 1..Len(tplOut) : tplOut[k].fn = fn

tplRest == <<tplParts, expression, row_data, default_value, colsVars,
             execVars, waitVars, runVars, coreVars, appVars>>

\* a handler's  resolve_expression(value, row_data)
ResolveExpression ==
    /\ ~ Called("resolve_expression")
    /\ tplOut' = Append(tplOut,
                        [fn |-> "resolve_expression", dflt |-> NoDefault,
                         out |-> TplReturned(resolve_expression(expression, row_data))])
    /\ UNCHANGED tplRest

\* _resolve_action_templates'  evaluate_template(original_value, self.data,
\* row_index, default_value)
EvaluateTemplate ==
    /\ ~ Called("evaluate_template")
    /\ tplOut' = Append(tplOut,
                        [fn |-> "evaluate_template", dflt |-> default_value,
                         out |-> evaluate_template(expression, row_data, default_value)])
    /\ UNCHANGED tplRest

NextTpl == ResolveExpression \/ EvaluateTemplate

SpecTpl == InitTpl /\ [][NextTpl]_vars

----------------------------------------------------------------------------
(* C11 - C13: what the resolvers return                                    *)

\* a col(...) reference the row can answer
PresentRef(part, row) ==
    \/ part.kind = "name" /\ HasKey(row, part.text)
    \/ part.kind = "idx" /\ part.i >= 0 /\ part.i < Len(row)

\* a col(...) reference the row cannot answer
FailingRef(part, row) ==
    \/ part.kind = "name" /\ ~ HasKey(row, part.text)
    \/ part.kind = "idx" /\ (part.i < 0 \/ part.i >= Len(row))

\* the text the contract puts in the place of one piece; other is what
\* stands for a span that could not be resolved
ContractText(part, row, other) ==
    IF part.kind = "lit" THEN part.text
    ELSE IF part.kind = "name" /\ HasKey(row, part.text)
    THEN str(Lookup(row, part.text))
    ELSE IF part.kind = "idx" /\ part.i >= 0 /\ part.i < Len(row)
    THEN str(row[part.i + 1].value)
    ELSE other

ContractResolved(parts, row, other) ==
    JoinText([i \in 1..Len(parts) |-> ContractText(parts[i], row, other)])

AllResolvable(parts, row) ==
    \A i \in 1..Len(parts) : parts[i].kind = "lit" \/ PresentRef(parts[i], row)

\* C11: when every span of the template is col('<name>') of a column of the
\* row or col(<i>) with 0 <= i < column count, each resolver returns the
\* template with every span replaced by that cell's text, span by span from
\* left to right, and the text outside the spans as it was.
C11_SpansReplacedByRowValues ==
    \A k \in 1..Len(tplOut) :
        AllResolvable(tplParts, row_data)
        => /\ tplOut[k].out.ok
           /\ tplOut[k].out.text = ContractResolved(tplParts, row_data, <<>>)

\* both resolvers have resolved a template of a by-name and a by-position
\* span whose cells differ
C11_Witness ==
    /\ Len(tplOut) = 2
    /\ Len(tplParts) = 2
    /\ tplParts[1].kind = "name" /\ tplParts[2].kind = "idx"
    /\ AllResolvable(tplParts, row_data)
    /\ ContractText(tplParts[1], row_data, <<>>) # ContractText(tplParts[2], row_data, <<>>)
    /\ \A k \in 1..2 : tplOut[k].out.ok

\* C12: a call without default on a template with a col('<name>') span of
\* an absent column, or a col(<i>) span with i negative or >= the column
\* count, does not return a string.
C12_AbsentColumnOrBadIndexFails ==
    \A k \in 1..Len(tplOut) :
        ( /\ ~ tplOut[k].dflt.given
          /\ \E i \in 1..Len(tplParts) : FailingRef(tplParts[i], row_data) )
        => ~ tplOut[k].out.ok

\* the first span of the template that holds no col(...) expression
FirstBad(parts) ==
    parts[CHOOSE i \in 1..Len(parts) :
             /\ parts[i].kind = "bad"
             /\ \A j \in 1..(i - 1) : parts[j].kind # "bad"]

\* C13: for a template whose other spans resolve, a span that holds no
\* col(...) expression makes the call either raise an error that names the
\* expression or, with a default, return the template with the default in
\* the place of the span; it never returns anything else.
C13_UnparseableSpanNeverRewritten ==
    \A k \in 1..Len(tplOut) :
        ( /\ \E i \in 1..Len(tplParts) : tplParts[i].kind = "bad"
          /\ \A i \in 1..Len(tplParts) :
                tplParts[i].kind \in {"lit", "bad"} \/ PresentRef(tplParts[i], row_data) )
        => IF tplOut[k].out.ok
           THEN /\ tplOut[k].dflt.given
                /\ tplOut[k].out.text
                      = ContractResolved(tplParts, row_data, tplOut[k].dflt.s)
           ELSE tplOut[k].out.error.expression = strip(FirstBad(tplParts).text)

----------------------------------------------------------------------------
(* Specification SpecCols: extract_required_columns on bounded tasks       *)

\* the keys under which a workflow or task holds a list of actions
ActionSections ==
    {"actions", "initialization", "pre_loop_actions", "loop_actions",
     "post_loop_actions"}

\* the fields of an action that hold text
TextFields == {"selector", "value", "url", "description"}

\* a workflow whose only action, in the given section, holds the template
\* in the given field
OneActionConfig(section, field, text) == section :> <<(field :> text)>>

InitCols ==
    /\ AppIdle
    /\ value = <<>> /\ semResult = <<>>
    /\ BuildIdle
    /\ PickIdle
    /\ tplParts \in PartSeqsUpTo(MaxParts)
    /\ expression = JoinText([i \in 1..Len(tplParts) |-> Render(tplParts[i])])
    /\ row_data = <<>>
    /\ default_value = NoDefault
    /\ tplOut = <<>>
    /\ task_config \in {OneActionConfig(sec, f, expression) :
                           sec \in ActionSections, f \in TextFields}
    /\ required_columns = <<>>
    /\ ExecIdle /\ WaitIdle /\ RunIdle

\* validate_task_templates'  self.extract_required_columns(task_config)
ExtractRequiredColumns ==
    /\ required_columns = <<>>
    /\ required_columns' = <<extract_required_columns(task_config)>>
    /\ UNCHANGED <<task_config, tplVars, execVars, waitVars, runVars, coreVars, appVars>>

NextCols == ExtractRequiredColumns

SpecCols == InitCols /\ [][NextCols]_vars

\* the fields the contract resolves templates in
ContractFields == {"selector", "value", "url"}

\* the names the template references by literal name
NamedColumns(parts) ==
    {parts[i].text : i \in {j \in 1..Len(parts) : parts[j].kind = "name"}}

\* the names referenced in a templated selector, value or url of any
\* action of any section of the configuration
ContractColumns(cfg, parts) ==
    IF \E sec \in DOMAIN cfg : \E i \in 1..Len(cfg[sec]) :
          DOMAIN cfg[sec][i] \cap ContractFields # {}
    THEN NamedColumns(parts)
    ELSE {}

\* C14: for a workflow whose templates hold only text, col('<name>') and
\* col(<i>) spans, extract_required_columns returns exactly the names
\* referenced by literal name in the selector, value and url of its
\* actions, whichever list holds the actions.
C14_ExtractsExactlyTheNamedColumns ==
    \A k \in 1..Len(required_columns) :
        (\A i \in 1..Len(tplParts) : tplParts[i].kind # "bad")
        => required_columns[k] = ContractColumns(task_config, tplParts)

----------------------------------------------------------------------------
(* Action execution: execute_action of action_execution.py and the         *)
(* handlers of action_handlers.py.  Action types, keys, browser aliases    *)
(* and exception messages are TLA+ strings; selectors, values and urls are *)
(* character sequences, because the resolver reads them.                   *)

\* action.get(field, dflt)
get(a, field, dflt) == IF field \in DOMAIN a THEN a[field] ELSE dflt

\* the dicts the handlers and execute_action return; "" is None
Success == [success |-> TRUE, error |-> [text |-> "", arg |-> ""]]
Failure(text, arg) == [success |-> FALSE, error |-> [text |-> text, arg |-> arg]]

\* what a call produced: the dict returned, the operations sent to the
\* page, whether an exception left the call (raised) and where an
\* exception arose inside it (exc: "" | "page" | "convert" | "services")
Outcome(res, ops, raised, exc) ==
    [result |-> res, ops |-> ops, raised |-> raised, exc |-> exc]

\* one operation sent to the Playwright page
PageOp(op, a1, a2) == [op |-> op, a1 |-> a1, a2 |-> a2]

\* what the page does with an operation: it completes, it raises
\* TimeoutError, or it raises because the page is gone
PageOutcomes == {"ok", "Timeout exceeded.", "Target page, context or browser has been closed"}

\* try: await page.<op>(...); return success / except Exception as e:
\* return {'success': False, 'error': f'<prefix>{str(e)}'}
TryPageOp(op, prefix, outcome) ==
    IF outcome = "ok" THEN Outcome(Success, <<op>>, FALSE, "")
    ELSE Outcome(Failure(prefix, outcome), <<op>>, FALSE, "page")

\* if row_data: x = resolve_expression(x, row_data)
ResolveIfRow(x, row) == IF row # <<>> THEN resolve_expression(x, row) ELSE x

handle_click(a, row, outcome) ==
    LET sel == get(a, "selector", <<>>)
    IN  IF sel = <<>>
        THEN Outcome(Failure("No selector specified for click action", ""), <<>>, FALSE, "")
        ELSE TryPageOp(PageOp("click", ResolveIfRow(sel, row), <<>>),
                       "Click error: {}", outcome)

handle_fill_field(a, row, outcome) ==
    LET sel == get(a, "selector", <<>>)
        val == get(a, "value", <<>>)
    IN  IF sel = <<>>
        THEN Outcome(Failure("No selector specified for fill_field action", ""), <<>>, FALSE, "")
        ELSE TryPageOp(PageOp("fill", ResolveIfRow(sel, row), ResolveIfRow(val, row)),
                       "Fill field error: {}", outcome)

handle_navigate(a, row, outcome) ==
    LET url == get(a, "url", <<>>)
    IN  IF url = <<>>
        THEN Outcome(Failure("No URL specified", ""), <<>>, FALSE, "")
        ELSE TryPageOp(PageOp("goto", ResolveIfRow(url, row), <<>>),
                       "Navigation error: {}", outcome)

handle_type_text(a, row, outcome) ==
    LET sel == get(a, "selector", <<>>)
        val == get(a, "value", <<>>)
    IN  IF sel = <<>>
        THEN Outcome(Failure("No selector specified", ""), <<>>, FALSE, "")
        ELSE TryPageOp(PageOp("type", ResolveIfRow(sel, row), ResolveIfRow(val, row)),
                       "Type text error: {}", outcome)

\* KEY_MAP.get(key, key)
KEY_MAP(key) ==
    CASE key = "Return"    -> "Enter"
      [] key = "space"     -> "Space"
      [] key = "BackSpace" -> "Backspace"
      [] OTHER             -> key

handle_press_key(a, row, outcome) ==
    LET key == get(a, "key", "")
    IN  IF key = ""
        THEN Outcome(Failure("No key specified", ""), <<>>, FALSE, "")
        ELSE TryPageOp(PageOp("press", KEY_MAP(key), <<>>),
                       "Press key error: {}", outcome)

\* the default of action.get('timeout', 30000)
DefaultTimeout == <<"3","0","0","0","0">>

\* int(action.get('timeout', 30000)) stands before the try of the handler:
\* a value int() rejects leaves the handler as ValueError
handle_wait_for_element(a, row, outcome) ==
    LET sel == get(a, "selector", <<>>)
        timeout == int(get(a, "timeout", DefaultTimeout))
    IN  IF ~ timeout.ok
        THEN Outcome(Success, <<>>, TRUE, "convert")
        ELSE IF sel = <<>>
        THEN Outcome(Failure("No selector specified", ""), <<>>, FALSE, "")
        ELSE TryPageOp(PageOp("wait_for_selector", ResolveIfRow(sel, row),
                              get(a, "timeout", DefaultTimeout)),
                       "Element not found: {}", outcome)

\* Python's float(s) for the strings of the model, in tenths of a second:
\* digits with at most one decimal digit; a string with any other
\* character of the model raises ValueError (ok = FALSE)
float(s) ==
    LET t   == strip(s)
        dot == FirstIn(t, 1, {"."})
        int_part  == IF dot = 0 THEN t ELSE SubSeq(t, 1, dot - 1)
        frac_part == IF dot = 0 THEN <<"0">> ELSE SubSeq(t, dot + 1, Len(t))
    IN  IF /\ int_part # <<>>
           /\ \A i \in 1..Len(int_part) : int_part[i] \in DigitChars
           /\ Len(frac_part) = 1 /\ frac_part[1] \in DigitChars
        THEN [ok |-> TRUE,
              tenths |-> 10 * Digits2Nat(int_part, 0) + Digits2Nat(frac_part, 0)]
        ELSE [ok |-> FALSE, tenths |-> 0]

\* the default of action.get('seconds', 1)
DefaultSeconds == <<"1">>

\* float(action.get('seconds', 1)) stands before the try; the sleep is one
\* asyncio.sleep(seconds) and involves no page operation
handle_wait_seconds(a, row, outcome) ==
    IF ~ float(get(a, "seconds", DefaultSeconds)).ok
    THEN Outcome(Success, <<>>, TRUE, "convert")
    ELSE Outcome(Success, <<>>, FALSE, "")

\* the keys of ACTION_HANDLERS
ACTION_HANDLERS ==
    {"click", "fill_field", "navigate", "type_text", "press_key",
     "wait_for_element", "wait_seconds"}

\* await handler(action, page, row_data) for the registered handler
CallHandler(action_type, a, row, outcome) ==
    CASE action_type = "click"            -> handle_click(a, row, outcome)
      [] action_type = "fill_field"       -> handle_fill_field(a, row, outcome)
      [] action_type = "navigate"         -> handle_navigate(a, row, outcome)
      [] action_type = "type_text"        -> handle_type_text(a, row, outcome)
      [] action_type = "press_key"        -> handle_press_key(a, row, outcome)
      [] action_type = "wait_for_element" -> handle_wait_for_element(a, row, outcome)
      [] action_type = "wait_seconds"     -> handle_wait_seconds(a, row, outcome)

\* execute_action without the enclosing try/except
ExecuteActionUncaught(a, row, ctl, outcome) ==
    LET action_type == get(a, "type", "")
        browser_alias == get(a, "browser_alias", "main")
    IN  IF action_type = ""
        THEN Outcome(Failure("No action type specified", ""), <<>>, FALSE, "")
        ELSE IF action_type \notin ACTION_HANDLERS
        THEN Outcome(Failure("Unknown action type: {}", action_type), <<>>, FALSE, "")
        ELSE IF ~ ctl.initialized
        THEN Outcome(Success, <<>>, TRUE, "services")
        ELSE IF browser_alias \notin ctl.pages
        THEN Outcome(Failure("Browser not initialized: {}", browser_alias), <<>>, FALSE, "")
        ELSE CallHandler(action_type, a, row, outcome)

\* execute_action(action, row_data); ctl is the global browser controller
\* (not initialized: get_browser_controller raises RuntimeError).  Every
\* exception that leaves the body is turned into a failure dict.
execute_action(a, row, ctl, outcome) ==
    LET action_type == get(a, "type", "")
        browser_alias == get(a, "browser_alias", "main")
        body ==
            IF action_type = ""
            THEN Outcome(Failure("No action type specified", ""), <<>>, FALSE, "")
            ELSE IF action_type \notin ACTION_HANDLERS
            THEN Outcome(Failure("Unknown action type: {}", action_type), <<>>, FALSE, "")
            ELSE IF ~ ctl.initialized
            THEN Outcome(Success, <<>>, TRUE, "services")
            ELSE IF browser_alias \notin ctl.pages
            THEN Outcome(Failure("Browser not initialized: {}", browser_alias), <<>>, FALSE, "")
            ELSE CallHandler(action_type, a, row, outcome)
    IN  IF body.raised
        THEN Outcome(Failure("Action execution error: {}", body.exc), body.ops, FALSE, body.exc)
        ELSE body

----------------------------------------------------------------------------
(* Specification SpecExec: execute_action on bounded actions               *)

X_plain   == <<"/","/","a">>
X_present == <<"{","{","c","o","l","(",SQ,"a",SQ,")","}","}">>
X_absent  == <<"{","{","c","o","l","(",SQ,"z","z",SQ,")","}","}">>
X_bad     == <<"{","{","b","a","d","}","}">>

\* what a selector, value or url field holds
FieldTexts == {<<>>, X_plain, X_present, X_absent, X_bad}

\* action dicts of every registered type, of no type and of an unknown type
ExecActions ==
    {("type" :> "click") @@ ("selector" :> s) : s \in FieldTexts}
    \cup {("type" :> "fill_field") @@ ("selector" :> s) @@ ("value" :> v) :
             s \in FieldTexts, v \in FieldTexts}
    \cup {("type" :> "navigate") @@ ("url" :> u) : u \in FieldTexts}
    \cup {("type" :> "type_text") @@ ("selector" :> s) @@ ("value" :> v) :
             s \in FieldTexts, v \in FieldTexts}
    \cup {("type" :> "press_key") @@ ("key" :> k) : k \in {"", "Return", "Tab"}}
    \cup {("type" :> "wait_for_element") @@ ("selector" :> s) : s \in FieldTexts}
    \cup {("type" :> "wait_for_element") @@ ("selector" :> s)
             @@ ("timeout" :> <<"a","b","c">>) : s \in FieldTexts}
    \cup {("type" :> "wait_seconds") @@ ("seconds" :> d) :
             d \in {<<"1">>, <<"0",".","3">>, <<"x">>}}
    \cup {("type" :> "wait_seconds"), ("type" :> "hover"),
          ("selector" :> X_plain)}

\* row_data: None (no row given) or the dict of one row
ExecRows == {<<>>, <<Cell(N_a, StrVal(<<"A","n","n">>))>>}

\* the services: not initialized, initialized without a page for 'main',
\* initialized with the page
Controllers ==
    {[initialized |-> FALSE, pages |-> {}],
     [initialized |-> TRUE,  pages |-> {}],
     [initialized |-> TRUE,  pages |-> {"main"}]}

InitExec ==
    /\ AppIdle
    /\ value = <<>> /\ semResult = <<>>
    /\ BuildIdle
    /\ PickIdle
    /\ tplParts = <<>> /\ expression = <<>>
    /\ row_data \in ExecRows
    /\ default_value = NoDefault /\ tplOut = <<>>
    /\ ColsIdle
    /\ action \in ExecActions
    /\ controller \in Controllers
    /\ execOut = <<>>
    /\ WaitIdle /\ RunIdle

\* one call  await execute_action(action, row_data)  and what the page
\* does with the operation it issues, if it issues one
Execute ==
    /\ execOut = <<>>
    /\ \E outcome \in PageOutcomes :
          execOut' = <<execute_action(action, row_data, controller, outcome)>>
    /\ UNCHANGED <<action, controller, tplVars, colsVars, waitVars, runVars,
                   coreVars, appVars>>

NextExec == Execute

SpecExec == InitExec /\ [][NextExec]_vars

----------------------------------------------------------------------------
(* C15, C16: execute and failures                                          *)

\* a templated selector, value or url of the action cannot be resolved
\* against the row: absent column or malformed expression
ResolutionFails(a) ==
    \E f \in DOMAIN a \cap {"selector", "value", "url"} : a[f] \in {X_absent, X_bad}

\* C15: when execute is given a row and a templated selector, value or url
\* of the action cannot be resolved, it returns success=false and sends no
\* operation to the page.
C15_ResolutionFailureReachesNoPage ==
    \A k \in 1..Len(execOut) :
        (row_data # <<>> /\ ResolutionFails(action))
        => /\ ~ execOut[k].result.success
           /\ execOut[k].ops = <<>>

\* C16: no exception leaves execute_action: whenever an exception arises in
\* it (page operation, conversion of a field, services not initialized) and
\* whenever the handler or the page is not found, the call returns
\* success=false with an error message.
C16_ExecuteNeverRaises ==
    \A k \in 1..Len(execOut) :
        /\ ~ execOut[k].raised
        /\ ( \/ execOut[k].exc # ""
             \/ get(action, "type", "") \notin ACTION_HANDLERS
             \/ "main" \notin controller.pages )
           => /\ ~ execOut[k].result.success
              /\ execOut[k].result.error.text # ""

\* execute_action has returned a failure for an exception that arose
\* outside the handler's own try (the conversion of the timeout field)
C16_Witness ==
    /\ execOut # <<>>
    /\ execOut[1].exc = "convert"
    /\ "main" \in controller.pages
    /\ ~ execOut[1].raised
    /\ ~ execOut[1].result.success

----------------------------------------------------------------------------
(* Specification SpecWait: the two waits and the stop request.  Time is    *)
(* counted in tenths of a second, the sub-increment of _execute_wait.      *)

\* longest wait, in tenths of a second
MaxTenths == 10

\* the text of a duration of n tenths of a second, e.g. "0.3"
SecondsText(n) == Decimal(n \div 10) \o <<".">> \o Decimal(n % 10)

\* the action of each implementation for a wait of n tenths
WaitAction(impl, n) ==
    IF impl = "handle_wait_seconds"
    THEN ("type" :> "wait_seconds") @@ ("seconds" :> SecondsText(n))
    ELSE ("type" :> "wait") @@ ("duration" :> SecondsText(n))

WaitImpls == {"handle_wait_seconds", "_execute_wait"}

NotWaiting(impl) ==
    [impl |-> impl, tenths |-> 0, slept |-> 0, pc |-> "idle", afterStop |-> 0,
     success |-> FALSE]

InitWait ==
    /\ AppIdle
    /\ value = <<>> /\ semResult = <<>>
    /\ BuildIdle
    /\ PickIdle
    /\ TplIdle /\ ColsIdle
    /\ \E impl \in WaitImpls, n \in 0..MaxTenths :
          /\ action = WaitAction(impl, n)
          /\ wait = NotWaiting(impl)
    /\ controller = [initialized |-> TRUE, pages |-> {"main"}]
    /\ execOut = <<>>
    /\ should_stop = FALSE
    /\ RunIdle

waitRest == <<action, controller, execOut, tplVars, colsVars, runVars, coreVars, appVars>>

\* handle_wait_seconds: seconds = float(action.get('seconds', 1)) and the
\* coroutine suspends in one asyncio.sleep(seconds)
StartSleep ==
    /\ wait.impl = "handle_wait_seconds" /\ wait.pc = "idle"
    /\ float(get(action, "seconds", DefaultSeconds)).ok
    /\ wait' = [wait EXCEPT
                  !.tenths = float(get(action, "seconds", DefaultSeconds)).tenths,
                  !.pc = "sleeping"]
    /\ UNCHANGED <<should_stop, waitRest>>

\* a tenth of a second of asyncio.sleep(seconds) passes; nothing is read
SleepTick ==
    /\ wait.pc = "sleeping" /\ wait.slept < wait.tenths
    /\ wait' = [wait EXCEPT
                  !.slept = @ + 1,
                  !.afterStop = IF should_stop THEN @ + 1 ELSE @]
    /\ UNCHANGED <<should_stop, waitRest>>

\* asyncio.sleep returns and the handler returns success
SleepReturns ==
    /\ wait.pc = "sleeping" /\ wait.slept = wait.tenths
    /\ wait' = [wait EXCEPT !.pc = "done", !.success = TRUE]
    /\ UNCHANGED <<should_stop, waitRest>>

\* chunks = max(1, int(duration * 10)) for a duration of n tenths
Chunks(n) == IF n < 1 THEN 1 ELSE n

\* _execute_wait: duration = action.get('duration', 1), then the loop
StartChunks ==
    /\ wait.impl = "_execute_wait" /\ wait.pc = "idle"
    /\ wait' = [wait EXCEPT
                  !.tenths = float(get(action, "duration", DefaultSeconds)).tenths,
                  !.pc = "check"]
    /\ UNCHANGED <<should_stop, waitRest>>

\* head of  for _ in range(chunks): if self.should_stop: return cancelled;
\* otherwise time.sleep(chunk_duration) begins; after the last chunk the
\* wait returns success.  wait.slept counts the chunks slept (a chunk of a
\* zero duration takes no time).
CheckStop ==
    /\ wait.pc = "check"
    /\ wait' = IF wait.slept >= Chunks(wait.tenths)
               THEN [wait EXCEPT !.pc = "done", !.success = TRUE]
               ELSE IF should_stop
               THEN [wait EXCEPT !.pc = "done", !.success = FALSE]
               ELSE [wait EXCEPT !.pc = "chunk"]
    /\ UNCHANGED <<should_stop, waitRest>>

\* time.sleep(chunk_duration) of one chunk ends
ChunkTick ==
    /\ wait.pc = "chunk"
    /\ wait' = [wait EXCEPT
                  !.slept = @ + 1,
                  !.afterStop = IF should_stop /\ wait.tenths > 0 THEN @ + 1 ELSE @,
                  !.pc = "check"]
    /\ UNCHANGED <<should_stop, waitRest>>

\* stop_execution(): the stop request is raised while the wait is going on
StopDuringWait ==
    /\ ~ should_stop
    /\ wait.pc \in {"sleeping", "check", "chunk"}
    /\ should_stop' = TRUE
    /\ UNCHANGED <<wait, waitRest>>

NextWait ==
    \/ StartSleep \/ SleepTick \/ SleepReturns
    \/ StartChunks \/ CheckStop \/ ChunkTick
    \/ StopDuringWait

SpecWait == InitWait /\ [][NextWait]_vars

\* C17: a wait during which the stop request is raised ends within one
\* sub-increment (a tenth of a second) after the request: at most one
\* sub-increment is slept once the request is up.
C17_WaitEndsWithinOneIncrementOfStop ==
    wait.pc = "done" => wait.afterStop <= 1

----------------------------------------------------------------------------
(* Specification SpecRun: a row-driven run.  WorkflowExecutor awaits       *)
(* execute_action for every action of every row; TaskExecutionThread runs  *)
(* _execute_data_loop.                                                     *)

A_fill  == ("type" :> "fill_field") @@ ("selector" :> X_plain) @@ ("value" :> X_present)
A_hover == ("type" :> "hover") @@ ("stop_on_error" :> TRUE)

\* the actions workflows are made of
ActionPool == {A_fill, A_hover}

\* most actions in a workflow, most rows in the data
MaxActions == 2
MaxRows == 2

RECURSIVE ActionSeqsUpTo(_)
ActionSeqsUpTo(n) ==
    IF n = 0 THEN {<<>>}
    ELSE LET shorter == ActionSeqsUpTo(n - 1)
         IN  shorter \cup {Append(s, a) : s \in shorter, a \in ActionPool}

\* row k of the data: every second row has an empty cell
DataRow(k) ==
    IF k % 2 = 1 THEN <<Cell(N_a, StrVal(<<"A","n","n">>))>>
    ELSE <<Cell(N_a, StrVal(<<>>))>>

DataFrames == {[k \in 1..n |-> DataRow(k)] : n \in 0..MaxRows}

\* what the page does with the operations of a run
RunPageOutcomes == {"ok", "Timeout exceeded."}

NoRunOut ==
    [returned |-> FALSE, raised |-> FALSE, success |-> FALSE, error |-> "",
     total_rows |-> 0]

InitRun ==
    /\ AppIdle
    /\ value = <<>> /\ semResult = <<>>
    /\ BuildIdle
    /\ PickIdle
    /\ TplIdle /\ ColsIdle
    /\ action = <<>> /\ execOut = <<>>
    /\ controller = [initialized |-> TRUE, pages |-> {}]
    /\ WaitIdle
    /\ runner \in {"WorkflowExecutor", "TaskExecutionThread"}
    /\ workflow_def \in {[browsers |-> b, actions |-> as] :
                            b \in {{}, {"main"}}, as \in ActionSeqsUpTo(MaxActions)}
    /\ data \in DataFrames
    /\ runPc = "start"
    /\ rowIdx = 0 /\ actionIdx = 0
    /\ inflight = <<>> /\ row_results = <<>> /\ results = <<>>
    /\ successful_rows = 0 /\ failed_rows = 0
    /\ runOut = NoRunOut
    /\ events = <<>>

runFrozen == <<action, execOut, wait, tplVars, colsVars, coreVars, appVars>>

\* execute_workflow up to the row loop: no actions and no browsers return
\* a failure dict with total_rows 0
WorkflowStart ==
    /\ runner = "WorkflowExecutor" /\ runPc = "start"
    /\ IF workflow_def.actions = <<>>
       THEN /\ runOut' = [NoRunOut EXCEPT !.returned = TRUE,
                                          !.error = "No actions in workflow"]
            /\ runPc' = "done"
       ELSE IF workflow_def.browsers = {}
       THEN /\ runOut' = [NoRunOut EXCEPT !.returned = TRUE,
                                          !.error = "No browsers configured in workflow"]
            /\ runPc' = "done"
       ELSE /\ runPc' = "browsers"
            /\ UNCHANGED runOut
    /\ UNCHANGED <<runner, workflow_def, data, rowIdx, actionIdx, inflight,
                   row_results, results, successful_rows, failed_rows, events,
                   controller, should_stop, runFrozen>>

\* "Initialize all browsers upfront": each browser without a page is
\* launched; launch_browser_page returns None when the launch fails, and
\* navigate returns a dict in either case
InitializeBrowsers ==
    /\ runner = "WorkflowExecutor" /\ runPc = "browsers"
    /\ \E launched \in SUBSET (workflow_def.browsers \ controller.pages) :
          controller' = [controller EXCEPT !.pages = @ \cup launched]
    /\ runPc' = "row"
    /\ rowIdx' = 1
    /\ UNCHANGED <<runner, workflow_def, data, actionIdx, inflight,
                   row_results, results, successful_rows, failed_rows, runOut,
                   events, should_stop, runFrozen>>

\* head of  for index, row in data.iterrows(): the next row begins, or the
\* loop is over and the summary is returned
NextRow ==
    /\ runner = "WorkflowExecutor" /\ runPc = "row"
    /\ IF rowIdx > Len(data)
       THEN /\ runOut' = [NoRunOut EXCEPT !.returned = TRUE, !.success = TRUE,
                                          !.total_rows = Len(data)]
            /\ runPc' = "done"
            /\ UNCHANGED <<actionIdx, row_results>>
       ELSE /\ row_results' = <<>>
            /\ actionIdx' = 1
            /\ runPc' = "action"
            /\ UNCHANGED runOut
    /\ UNCHANGED <<runner, workflow_def, data, rowIdx, inflight, results,
                   successful_rows, failed_rows, events, controller,
                   should_stop, runFrozen>>

DispatchEvent(out) ==
    [ev |-> "dispatch", row |-> rowIdx, act |-> actionIdx, ops |-> Len(out.ops)]
ReturnEvent ==
    [ev |-> "return", row |-> rowIdx, act |-> actionIdx, ops |-> 0]

\* dispatch without awaiting: the loop goes on to the next action while
\* the call is still out
ActionDispatchNoAwait ==
    /\ runner = "WorkflowExecutor" /\ runPc = "action"
    /\ actionIdx <= Len(workflow_def.actions)
    /\ \E outcome \in RunPageOutcomes :
          LET out == execute_action(workflow_def.actions[actionIdx],
                                    data[rowIdx], controller, outcome)
          IN  /\ inflight' = <<out>>
              /\ events' = Append(events, DispatchEvent(out))
    /\ actionIdx' = actionIdx + 1
    /\ UNCHANGED <<runner, workflow_def, data, runPc, rowIdx, row_results, results,
                   successful_rows, failed_rows, runOut, controller,
                   should_stop, runFrozen>>

\* result = await execute_action(action, row_data), up to the point where
\* the coroutine is suspended on the page
ActionDispatch ==
    /\ runner = "WorkflowExecutor" /\ runPc = "action"
    /\ actionIdx <= Len(workflow_def.actions)
    /\ \E outcome \in RunPageOutcomes :
          LET out == execute_action(workflow_def.actions[actionIdx],
                                    data[rowIdx], controller, outcome)
          IN  /\ inflight' = <<out>>
              /\ events' = Append(events, DispatchEvent(out))
    /\ runPc' = "await"
    /\ UNCHANGED <<runner, workflow_def, data, rowIdx, actionIdx, row_results,
                   results, successful_rows, failed_rows, runOut, controller,
                   should_stop, runFrozen>>

\* execute_action returns; row_results.append({...}); the row goes on with
\* the next action whether or not this one succeeded
ActionReturn ==
    /\ runner = "WorkflowExecutor" /\ runPc = "await"
    /\ row_results' = Append(row_results,
                             [action_type |-> get(workflow_def.actions[actionIdx], "type", ""),
                              success |-> inflight[1].result.success,
                              error |-> inflight[1].result.error])
    /\ events' = Append(events, ReturnEvent)
    /\ inflight' = <<>>
    /\ actionIdx' = actionIdx + 1
    /\ runPc' = "action"
    /\ UNCHANGED <<runner, workflow_def, data, rowIdx, results,
                   successful_rows, failed_rows, runOut, controller,
                   should_stop, runFrozen>>

\* the run ends at the first row that has a failed action
RowEndAbortsOnFailure ==
    /\ runner = "WorkflowExecutor" /\ runPc = "action"
    /\ actionIdx > Len(workflow_def.actions)
    /\ LET row_success == \A k \in 1..Len(row_results) : row_results[k].success
       IN  /\ successful_rows' = IF row_success THEN successful_rows + 1 ELSE successful_rows
           /\ failed_rows' = IF row_success THEN failed_rows ELSE failed_rows + 1
           /\ results' = Append(results, [row_index |-> rowIdx - 1,
                                          success |-> row_success,
                                          actions |-> row_results])
           /\ rowIdx' = IF row_success THEN rowIdx + 1 ELSE Len(data) + 1
    /\ runPc' = "row"
    /\ UNCHANGED <<runner, workflow_def, data, actionIdx, inflight, row_results,
                   runOut, events, controller, should_stop, runFrozen>>

\* "Track row result": the counters and  results.append({'row_index':
\* int(index), 'success': row_success, 'actions': row_results})
RowEnd ==
    /\ runner = "WorkflowExecutor" /\ runPc = "action"
    /\ actionIdx > Len(workflow_def.actions)
    /\ LET row_success == \A k \in 1..Len(row_results) : row_results[k].success
       IN  /\ successful_rows' = IF row_success THEN successful_rows + 1 ELSE successful_rows
           /\ failed_rows' = IF row_success THEN failed_rows ELSE failed_rows + 1
           /\ results' = Append(results, [row_index |-> rowIdx - 1,
                                          success |-> row_success,
                                          actions |-> row_results])
    /\ rowIdx' = rowIdx + 1
    /\ runPc' = "row"
    /\ UNCHANGED <<runner, workflow_def, data, actionIdx, inflight, row_results,
                   runOut, events, controller, should_stop, runFrozen>>

\* run() reaches the main loop: with loop actions and data it calls
\* _execute_data_loop, without loop actions it goes on to its end
ThreadStart ==
    /\ runner = "TaskExecutionThread" /\ runPc = "start"
    /\ IF workflow_def.actions = <<>>
       THEN /\ runOut' = [NoRunOut EXCEPT !.returned = TRUE, !.success = TRUE,
                                          !.total_rows = Len(data)]
            /\ runPc' = "done"
            /\ UNCHANGED rowIdx
       ELSE /\ rowIdx' = 1
            /\ runPc' = "t_row"
            /\ UNCHANGED runOut
    /\ UNCHANGED <<runner, workflow_def, data, actionIdx, inflight,
                   row_results, results, successful_rows, failed_rows, events,
                   controller, should_stop, runFrozen>>

\* head of  for row_idx in range(total_rows): if self.should_stop: break.
\* After the loop the result is returned with success True;
\* successful_rows stands for result['rows_processed']
ThreadRowCheck ==
    /\ runner = "TaskExecutionThread" /\ runPc = "t_row"
    /\ IF rowIdx > Len(data) \/ should_stop
       THEN /\ runOut' = [NoRunOut EXCEPT
                            !.returned = TRUE, !.success = TRUE,
                            !.error = IF rowIdx <= Len(data)
                                      THEN "Data loop cancelled at row {}" ELSE "",
                            !.total_rows = Len(data)]
            /\ runPc' = "done"
            /\ UNCHANGED actionIdx
       ELSE /\ actionIdx' = 1
            /\ runPc' = "t_action"
            /\ UNCHANGED runOut
    /\ UNCHANGED <<runner, workflow_def, data, rowIdx, inflight, row_results,
                   results, successful_rows, failed_rows, events, controller,
                   should_stop, runFrozen>>

\* head of  for action_idx, action in enumerate(loop_actions): if
\* self.should_stop: break.  Leaving the inner loop this way, or at its
\* end, keeps row_success True, so rows_processed is incremented
ThreadActionCheck ==
    /\ runner = "TaskExecutionThread" /\ runPc = "t_action"
    /\ IF actionIdx > Len(workflow_def.actions) \/ should_stop
       THEN /\ successful_rows' = successful_rows + 1
            /\ rowIdx' = rowIdx + 1
            /\ runPc' = "t_row"
       ELSE /\ runPc' = "t_dispatch"
            /\ UNCHANGED <<successful_rows, rowIdx>>
    /\ UNCHANGED <<runner, workflow_def, data, actionIdx, inflight, row_results,
                   results, failed_rows, runOut, events, controller,
                   should_stop, runFrozen>>

\* resolved_action = self._resolve_action_templates(action, row_idx);
\* action_result = self._execute_action(resolved_action): the class defines
\* no _execute_action (its statements follow the return of
\* _resolve_action_templates), so the attribute lookup raises
\* AttributeError, which leaves _execute_data_loop and is caught by run():
\* nothing is sent to the page and the run ends as 'Task execution failed'
ThreadDispatch ==
    /\ runner = "TaskExecutionThread" /\ runPc = "t_dispatch"
    /\ runOut' = [NoRunOut EXCEPT !.returned = TRUE, !.success = FALSE,
                                  !.error = "Task execution failed",
                                  !.total_rows = Len(data)]
    /\ runPc' = "done"
    /\ UNCHANGED <<runner, workflow_def, data, rowIdx, actionIdx, inflight,
                   row_results, results, successful_rows, failed_rows, events,
                   controller, should_stop, runFrozen>>

\* the user asks the run to stop (TaskExecutionThread.stop_execution sets
\* should_stop; WorkflowExecutor has nothing that reads a stop request)
StopRun ==
    /\ runPc \notin {"off", "done"}
    /\ ~ should_stop
    /\ should_stop' = TRUE
    /\ events' = Append(events, [ev |-> "stop", row |-> 0, act |-> 0, ops |-> 0])
    /\ UNCHANGED <<runner, workflow_def, data, runPc, rowIdx, actionIdx, inflight,
                   row_results, results, successful_rows, failed_rows, runOut,
                   controller, runFrozen>>

NextRun ==
    \/ WorkflowStart \/ InitializeBrowsers \/ NextRow
    \/ ActionDispatch \/ ActionReturn \/ RowEnd
    \/ ThreadStart \/ ThreadRowCheck \/ ThreadActionCheck \/ ThreadDispatch
    \/ StopRun

SpecRun == InitRun /\ [][NextRun]_vars

\* ActionDispatch seen through runPc: it is enabled whenever its guard
\* holds (execute_action returns a value for every action) and it is the
\* one step that takes runPc from "action" to "await"
Dispatching ==
    /\ runner = "WorkflowExecutor" /\ runPc = "action"
    /\ actionIdx <= Len(workflow_def.actions)
    /\ runPc' = "await"

\* the event loop and the thread keep running the code: a step of the run
\* that stays possible is taken; a stop request may or may not come
SpecRunLive ==
    /\ SpecRun
    /\ WF_vars(WorkflowStart \/ InitializeBrowsers \/ NextRow \/ ActionReturn
               \/ RowEnd \/ ThreadStart \/ ThreadRowCheck
               \/ ThreadActionCheck \/ ThreadDispatch)
    /\ WF_runPc(Dispatching)

----------------------------------------------------------------------------
(* C18 - C20: stop request, order and results of a run                     *)

\* C18: once the stop request is raised, no further action is dispatched
\* to the page (the one in flight at that moment was dispatched before).
C18_NoDispatchAfterStop ==
    \A i \in 1..Len(events) : \A j \in (i + 1)..Len(events) :
        events[i].ev = "stop"
        => ~ (events[j].ev = "dispatch" /\ events[j].ops > 0)

\* the dispatches and returns of the run, in order
Calls == SelectSeq(events, LAMBDA e : e.ev # "stop")

\* C19: the calls of a run are strictly sequential: every dispatch is
\* followed by its own return before anything else is dispatched, the
\* actions of a row are dispatched in declared order, and the first action
\* of the next row is dispatched only after the last action of the row has
\* returned.
C19_DispatchesStrictlyInOrder ==
    \A k \in 1..Len(Calls) :
        IF k % 2 = 1
        THEN /\ Calls[k].ev = "dispatch"
             /\ IF k = 1
                THEN Calls[k].row = 1 /\ Calls[k].act = 1
                ELSE \/ /\ Calls[k].row = Calls[k - 2].row
                        /\ Calls[k].act = Calls[k - 2].act + 1
                     \/ /\ Calls[k].row = Calls[k - 2].row + 1
                        /\ Calls[k].act = 1
                        /\ Calls[k - 2].act = Len(workflow_def.actions)
        ELSE /\ Calls[k].ev = "return"
             /\ Calls[k].row = Calls[k - 1].row
             /\ Calls[k].act = Calls[k - 1].act

\* a run of two actions over two rows has ended with four operations sent
\* to the page
C19_Witness ==
    /\ runner = "WorkflowExecutor" /\ runPc = "done"
    /\ Len(data) = 2 /\ Len(workflow_def.actions) = 2
    /\ Len(Calls) = 8
    /\ \A k \in {1, 3, 5, 7} : Calls[k].ops > 0

\* what holds of a WorkflowExecutor run with at least one action and one
\* browser: no exception leaves it, and when it has ended it has returned
\* one result per row, in row order, with the counters adding up
RowResultsComplete ==
    ( /\ runner = "WorkflowExecutor"
      /\ workflow_def.actions # <<>>
      /\ workflow_def.browsers # {} )
    => /\ ~ runOut.raised
       /\ runPc = "done"
          => /\ runOut.returned
             /\ Len(results) = Len(data)
             /\ \A i \in 1..Len(results) : results[i].row_index = i - 1
             /\ successful_rows + failed_rows = Len(data)
             /\ runOut.total_rows = Len(data)

\* C20: a WorkflowExecutor run over N rows with at least one action and
\* one browser always ends, with exactly N row results in row order and
\* successful_rows + failed_rows = total_rows = N, whatever fails in a row.
C20_RunEndsWithOneResultPerRow ==
    [] RowResultsComplete /\ <> (runPc = "done")

\* a run over two rows has ended with two results although the first row
\* failed and the second row has an empty cell for the templated value
C20_Witness ==
    /\ runner = "WorkflowExecutor" /\ runPc = "done"
    /\ Len(data) = 2 /\ Len(results) = 2
    /\ \E k \in 1..Len(workflow_def.actions) : workflow_def.actions[k] = A_fill
    /\ ~ results[1].success
    /\ failed_rows >= 1

----------------------------------------------------------------------------
(* C21, C23, C24: what analyze_failure returns for a failed selector       *)

\* the components of the selector the last analysis was made for
AnalyzedComponents == _parse_xpath_components(failedXpath)

InAnalysis(component) ==
    \E k \in 1..Len(analysis) :
        /\ analysis[k].element = component.element
        /\ analysis[k].attribute = component.attribute
        /\ analysis[k].value = component.value

\* C21: every component of a compound selector is judged by its own
\* isolated query: a component whose query still finds an element is not in
\* the returned blacklist, and a component whose query finds nothing is in
\* it, whatever the page answers for the other components.
C21_ComponentsJudgedInIsolation ==
    phase = "analyzed" =>
        \A i \in 1..Len(AnalyzedComponents) :
            LET c == AnalyzedComponents[i] IN
            /\ answers[TestSelector(c)] = "found" => ~ InAnalysis(c)
            /\ answers[TestSelector(c)] = "empty" => InAnalysis(c)

\* a compound selector was analyzed of which one component is still on
\* the page and another is gone
C21_Witness ==
    /\ phase = "analyzed"
    /\ \E i, j \in 1..Len(AnalyzedComponents) :
          /\ answers[TestSelector(AnalyzedComponents[i])] = "found"
          /\ answers[TestSelector(AnalyzedComponents[j])] = "empty"
          /\ ~ InAnalysis(AnalyzedComponents[i])
          /\ InAnalysis(AnalyzedComponents[j])
          /\ Len(analysis) = 1

\* C23: a component is in the returned blacklist only if its isolated
\* query of the live page returned zero elements; a query that raised
\* blacklists nothing.
C23_BlacklistedOnlyWhenQueryFoundNothing ==
    phase = "analyzed" =>
        \A k \in 1..Len(analysis) : answers[TestSelector(analysis[k])] = "empty"

\* the decomposition of the selector has a component of this attribute
\* and value (of this tag, when the predicate names one)
Recovered(s, tags, attr, v) ==
    LET components == _parse_xpath_components(s) IN
    \E i \in 1..Len(components) :
        /\ components[i].element \in tags
        /\ components[i].attribute = attr
        /\ components[i].value = v

\* the tags and values of the picked elements
BuiltTags   == {T_a, T_input, T_div, T_form}
BuiltValues == {V_ok, V_nm, V_ti, V_cy, V_go, V_x9}

\* C24: every attribute or text predicate the builder emitted into a
\* selector - id, name, the data-* test attributes, text and type on the
\* target, id and class on an ancestor - is one component of the
\* decomposition of that selector, with the same tag, attribute and value.
C24_EmittedPredicatesAreRecovered ==
    Built =>
        /\ \A v \in BuiltValues :
              Contains(selector, FmtId(v)) => Recovered(selector, BuiltTags, A_id, v)
        /\ \A t \in BuiltTags, v \in BuiltValues :
              /\ \A a \in {A_name, A_type, A_testid, A_cy, A_test, A_auto, A_qa} :
                    Contains(selector, FmtAttr(t, a, v))
                    => Recovered(selector, {t}, a, v)
              /\ Contains(selector, FmtText(t, v)) => Recovered(selector, {t}, A_text, v)
              /\ Contains(selector, FmtClass(t, v)) => Recovered(selector, {t}, A_class, v)

----------------------------------------------------------------------------
(* C25: the class token of an ancestor                                     *)

\* the whitespace-separated tokens of the ancestor's class attribute that
\* pass the classifier and are not blacklisted, by position
GoodClassTokens(anc) ==
    IF A_class \in DOMAIN anc.attributes
    THEN LET tokens == split(anc.attributes[A_class])
         IN  {i \in 1..Len(tokens) :
                 /\ ContractIsSemantic(tokens[i])
                 /\ ~ InBlacklist(anc.tagName, A_class, tokens[i])}
    ELSE {}

\* the ancestor is no landmark and has no clean id
NeedsClass(anc) ==
    /\ anc.tagName \notin {T_form, T_nav, T_main, T_section, T_article,
                           T_header, T_footer}
    /\ ~ ( /\ A_id \in DOMAIN anc.attributes
           /\ ContractIsSemantic(anc.attributes[A_id])
           /\ ~ InBlacklist(anc.tagName, A_id, anc.attributes[A_id]) )

\* the prefix the contract prescribes for such an ancestor
ExpectedClassPrefix(anc) ==
    LET tokens == split(anc.attributes[A_class])
        good   == GoodClassTokens(anc)
    IN  FmtClass(anc.tagName, tokens[CHOOSE i \in good : \A j \in good : i <= j])

\* C25: when the nearest ancestor is no landmark, has no clean id and has a
\* class token that passes the classifier and is not blacklisted, the
\* selector of a target without a clean id starts with
\* //<tag>[contains(@class, "<token>")] for the first such token - also
\* when the class attribute holds several tokens.
C25_AncestorPrefixIsFirstCleanClassToken ==
    ( /\ Built
      /\ ~ CleanOnTarget(A_id)
      /\ ancestors # <<>>
      /\ NeedsClass(ancestors[1])
      /\ GoodClassTokens(ancestors[1]) # {} )
    => LET p == ExpectedClassPrefix(ancestors[1])
       IN  Len(p) <= Len(selector) /\ SubSeq(selector, 1, Len(p)) = p

----------------------------------------------------------------------------
(* Specification SpecDual: the picker button of the actions editor.        *)
(* ActionsList.on_element_picker_clicked is an async handler of a button   *)
(* that stays enabled: every click starts a coroutine that gets the page   *)
(* of alias "main" and awaits ElementPicker().pick_element(page) of        *)
(* element_picker_toggle.py.  Two such coroutines share the page.          *)

Sessions == {1, 2}

\* picker button clicks in one run of the model
MaxRequests == 3

InitDual ==
    /\ value = <<>> /\ semResult = <<>>
    /\ BuildIdle
    /\ variant = "toggle" /\ pc = "idle"
    /\ page = FreshPage
    /\ injectedPages = FALSE
    /\ result = NoResult /\ hist = NoHist
    /\ EngineIdle
    /\ ThrIdle /\ EditIdle /\ BcIdle
    /\ dual = [on |-> TRUE, pc |-> [c \in Sessions |-> "idle"],
               gen |-> 1, requests |-> 0, outcome |-> [c \in Sessions |-> "none"]]

dualRest == <<variant, pc, result, hist, semVars, buildVars, engineVars, thr, editor, bc>>

\* the button is clicked: the handler starts and is suspended in
\* await browser_controller.get_page("chrome", "main", ...)
RequestPick ==
    \E c \in Sessions :
        /\ dual.on /\ dual.pc[c] = "idle"
        /\ dual.requests < MaxRequests
        /\ dual' = [dual EXCEPT !.pc[c] = "get_page", !.requests = @ + 1,
                                !.outcome[c] = "none"]
        /\ UNCHANGED <<page, injectedPages, dualRest>>

\* get_page returns the page of the alias; pick_element runs to its first
\* await: page.add_script_tag when id(page) is not in
\* _picker_injected_pages, else the page.evaluate of step 2
EnterPick ==
    \E c \in Sessions :
        /\ dual.on /\ dual.pc[c] = "get_page"
        /\ dual' = [dual EXCEPT !.pc[c] = IF injectedPages THEN "enable" ELSE "inject"]
        /\ UNCHANGED <<page, injectedPages, dualRest>>

\* the injected script has run; _picker_injected_pages.add(page_id); the
\* coroutine is suspended in the page.evaluate of step 2
InjectPicker ==
    \E c \in Sessions :
        /\ dual.on /\ dual.pc[c] = "inject"
        /\ page' = ToggleInjectScript(page)
        /\ injectedPages' = TRUE
        /\ dual' = [dual EXCEPT !.pc[c] = "enable"]
        /\ UNCHANGED dualRest

\* step 2 has run in the page; the coroutine is suspended in
\* page.wait_for_function
EnablePicker ==
    \E c \in Sessions :
        /\ dual.on /\ dual.pc[c] = "enable"
        /\ page' = ToggleEnableScript(page, dual.gen)
        /\ dual' = [dual EXCEPT !.pc[c] = "waiting", !.gen = @ + 1]
        /\ UNCHANGED <<injectedPages, dualRest>>

\* wait_for_function finds window.elementPicker.clickedElement set; steps
\* 4 reads the element back
ClickFound ==
    \E c \in Sessions :
        /\ dual.on /\ dual.pc[c] = "waiting"
        /\ ClickedValue("toggle", page) > Null
        /\ dual' = [dual EXCEPT !.pc[c] = "disable"]
        /\ UNCHANGED <<page, injectedPages, dualRest>>

\* wait_for_function times out: the except branch disables the picker and
\* the failure dict is returned
WaitTimeout ==
    \E c \in Sessions :
        /\ dual.on /\ dual.pc[c] = "waiting"
        /\ ClickedValue("toggle", page) <= Null
        /\ page' = ToggleDisableScript(page)
        /\ dual' = [dual EXCEPT !.pc[c] = "idle", !.outcome[c] = "timeout"]
        /\ UNCHANGED <<injectedPages, dualRest>>

\* step 5 and the return of the success dict
DisablePicker ==
    \E c \in Sessions :
        /\ dual.on /\ dual.pc[c] = "disable"
        /\ page' = ToggleDisableScript(page)
        /\ dual' = [dual EXCEPT !.pc[c] = "idle", !.outcome[c] = "picked"]
        /\ UNCHANGED <<injectedPages, dualRest>>

\* the user clicks an element of the page
PageClick ==
    /\ dual.on
    /\ \E k \in 1..Len(PickElements) : page' = ClickEvent(page, k)
    /\ page' # page
    /\ UNCHANGED <<dual, injectedPages, dualRest>>

NextDual ==
    \/ RequestPick \/ EnterPick \/ InjectPicker \/ EnablePicker
    \/ ClickFound \/ WaitTimeout \/ DisablePicker \/ PageClick

SpecDual == InitDual /\ [][NextDual]_vars

\* the session has armed capture on the page and has not returned
Armed(c) == dual.on /\ dual.pc[c] \in {"waiting", "disable"}

\* C22: at most one picker session is in progress on the page: a pick
\* requested while another one is waiting for its click does not arm capture
\* on that page before the first one has returned.
C22_OnePickSessionPerPage ==
    ~ (Armed(1) /\ Armed(2))

----------------------------------------------------------------------------
(* C26: the stop_on_error policy of a run                                  *)

\* the policy applies to the action: action.get('stop_on_error', True), as
\* the two loops that read the key have it
StopOnError(a) == get(a, "stop_on_error", TRUE) = TRUE

\* action k of row r has returned a failure
FailedAt(r, k) ==
    \/ /\ r <= Len(results)
       /\ k <= Len(results[r].actions)
       /\ ~ results[r].actions[k].success
    \/ /\ r = rowIdx /\ r > Len(results)
       /\ runPc \in {"action", "await"}
       /\ k <= Len(row_results)
       /\ ~ row_results[k].success

\* something was dispatched after action k of row r had returned
DispatchedAfter(r, k) ==
    \E i \in 1..Len(events) : \E j \in (i + 1)..Len(events) :
        /\ events[i].ev = "return" /\ events[i].row = r /\ events[i].act = k
        /\ events[j].ev = "dispatch"

\* C26: when an action to which the stop_on_error policy applies has
\* failed, no later action of the run is dispatched, in that row or in a
\* later one, and the run does not end as successful.
C26_FailureUnderStopOnErrorEndsTheRun ==
    \A r \in 1..Len(data) : \A k \in 1..Len(workflow_def.actions) :
        (FailedAt(r, k) /\ StopOnError(workflow_def.actions[k]))
        => /\ ~ DispatchedAfter(r, k)
           /\ runPc = "done" => ~ runOut.success

----------------------------------------------------------------------------
(* Specification SpecThread: TaskExecutionThread.run from start to the     *)
(* last emit, with stop_execution called from the UI thread at any moment. *)
(* The class defines no _execute_action (its statements follow the return  *)
(* of _resolve_action_templates), so every call of it raises               *)
(* AttributeError, which run() catches.  The methods of BrowserController  *)
(* are coroutine functions: called without await they return a coroutine   *)
(* object, which is truthy and does nothing.                               *)

\* most actions in a phase of the task, most rows of the data
MaxPhaseActions == 1
MaxThreadRows == 2

\* the tasks: whether setup has a url, and the number of pre-loop, loop and
\* post-loop actions
ThreadTasks ==
    [url : BOOLEAN, pre : 0..MaxPhaseActions, loop : 0..MaxPhaseActions,
     post : 0..MaxPhaseActions]

\* self.data: None (-1) or a DataFrame of so many rows
NoData == -1
ThreadData == {NoData} \cup 0..MaxThreadRows

M_none      == "''"
M_setup     == "Setup failed"
M_pre       == "Pre-loop actions failed"
M_loop      == "Loop execution failed"
M_cancelled == "execution cancelled at action 1"
M_post      == "Post-loop actions failed"
M_completed == "Task completed successfully"
M_exception == "Task execution failed"

InitThread ==
    /\ DualIdle /\ EditIdle /\ BcIdle
    /\ value = <<>> /\ semResult = <<>>
    /\ BuildIdle /\ PickIdle /\ EngineIdle
    /\ \E t \in ThreadTasks, d \in ThreadData :
          thr = [pc |-> "start", task |-> t, data |-> d, should_stop |-> FALSE,
                 row_idx |-> 0, rows_processed |-> 0, rows_complete |-> 0,
                 success |-> FALSE, message |-> M_none,
                 emitted |-> 0, stops |-> 0, early |-> FALSE]

thrRest == <<coreVars, engineVars, dual, editor, bc>>

\* the finally clause of run: self.browser_controller.stop() and
\* self.execution_finished.emit(result)
Finally(t) == [t EXCEPT !.stops = @ + 1, !.emitted = @ + 1, !.pc = "done"]

\* a branch of run that emits the result and returns: the finally clause
\* runs after it
EmitAndReturn(t, msg) ==
    Finally([t EXCEPT !.message = msg, !.emitted = @ + 1])

\* except Exception as e: result['message'] = 'Task execution failed'
Except(t) == Finally([t EXCEPT !.message = M_exception])

\* ThreadExecuteActions: _execute_actions(actions, phase_name) as run calls
\* it for a non-empty list: cancelled at action 1 when should_stop is set
\* (result success False), otherwise self._execute_action raises
PhaseOutcome(t) == IF t.should_stop THEN "failed" ELSE "raised"

\* run up to the end of the setup phase: result, BrowserController(),
\* _execute_setup; the failure analyzer is not created since pages is empty
ThreadSetup ==
    /\ thr.pc = "start"
    /\ thr' = IF ~ thr.task.url THEN EmitAndReturn(thr, M_setup)
              ELSE [thr EXCEPT !.pc = "pre"]
    /\ UNCHANGED thrRest

\* # Execute pre-loop actions
ThreadPreLoop ==
    /\ thr.pc = "pre"
    /\ thr' = IF thr.task.pre = 0 THEN [thr EXCEPT !.pc = "loop"]
              ELSE IF PhaseOutcome(thr) = "failed" THEN EmitAndReturn(thr, M_pre)
              ELSE Except(thr)
    /\ UNCHANGED thrRest

\* # Execute main loop (with or without data): the branch taken; without
\* data _execute_actions(loop_actions, "Main") runs here
ThreadLoop ==
    /\ thr.pc = "loop"
    /\ thr' = IF thr.task.loop = 0 THEN [thr EXCEPT !.pc = "post"]
              ELSE IF thr.data # NoData
              THEN [thr EXCEPT !.pc = "row", !.row_idx = 1, !.rows_processed = 0]
              ELSE IF PhaseOutcome(thr) = "failed"
              THEN EmitAndReturn(thr, M_cancelled)
              ELSE Except(thr)
    /\ UNCHANGED thrRest

\* head of the row loop of _execute_data_loop; at its end, or at the break
\* on should_stop, the result is returned with success True and run goes on
ThreadRow ==
    /\ thr.pc = "row"
    /\ thr' = IF thr.row_idx > thr.data \/ thr.should_stop
              THEN [thr EXCEPT !.pc = "post"]
              ELSE [thr EXCEPT !.pc = "action"]
    /\ UNCHANGED thrRest

\* head of the action loop for the first action of the row: the break on
\* should_stop leaves row_success True, so rows_processed is incremented;
\* otherwise _resolve_action_templates returns and self._execute_action
\* raises out of _execute_data_loop
ThreadAction ==
    /\ thr.pc = "action"
    /\ thr' = IF thr.should_stop
              THEN [thr EXCEPT !.rows_processed = @ + 1, !.row_idx = @ + 1,
                               !.pc = "row"]
              ELSE Except(thr)
    /\ UNCHANGED thrRest

\* # Execute post-loop actions, and # Success
ThreadPostLoop ==
    /\ thr.pc = "post"
    /\ thr' = IF thr.task.post = 0
              THEN Finally([thr EXCEPT !.success = TRUE, !.message = M_completed])
              ELSE IF PhaseOutcome(thr) = "failed" THEN EmitAndReturn(thr, M_post)
              ELSE Except(thr)
    /\ UNCHANGED thrRest

\* actions or rows are still to be executed at this point of run
WorkLeft(t) ==
    LET loopLeft == /\ t.task.loop > 0
                    /\ \/ t.pc \in {"start", "pre", "loop"} /\ t.data # 0
                       \/ t.pc \in {"row", "action"} /\ t.row_idx <= t.data
    IN  \/ t.pc \in {"start", "pre"} /\ t.task.pre > 0
        \/ loopLeft
        \/ t.pc # "done" /\ t.task.post > 0

\* stop_execution, called from the UI thread while run is not finished
StopExecution ==
    /\ thr.pc \notin {"off", "done"}
    /\ ~ thr.should_stop
    /\ thr' = [thr EXCEPT !.should_stop = TRUE, !.early = WorkLeft(thr)]
    /\ UNCHANGED thrRest

NextThread ==
    \/ ThreadSetup \/ ThreadPreLoop \/ ThreadLoop \/ ThreadRow \/ ThreadAction
    \/ ThreadPostLoop \/ StopExecution

SpecThread == InitThread /\ [][NextThread]_vars

\* C27: a run on which stop_execution was called while rows or actions
\* were still to be executed does not end with success true or with the
\* 'completed successfully' message, and rows_processed counts only rows
\* whose actions were all executed.
C27_StoppedRunIsNotReportedAsCompleted ==
    (thr.pc = "done" /\ thr.early)
    => /\ ~ thr.success
       /\ thr.message # M_completed
       /\ thr.rows_processed <= thr.rows_complete

\* C28: on every exit path run has emitted execution_finished exactly once
\* and called stop on its browser controller exactly once.
C28_OneEmitAndOneStopPerRun ==
    thr.pc = "done" => (thr.emitted = 1 /\ thr.stops = 1)

----------------------------------------------------------------------------
(* Specification SpecEdit: the handlers of ActionsList that the cards, the *)
(* inline editor and the Add button call.  An action of the list is an     *)
(* identifier; the form data save_action collects is a fresh identifier.   *)
(* Indices are those of the source (from 0).                               *)

\* most actions in the list, and most identifiers handed out
MaxEditorActions == 3
MaxActionIds == 5

\* editing_index None
NoneIndex == -1

InitEdit ==
    /\ DualIdle /\ ThrIdle /\ BcIdle
    /\ value = <<>> /\ semResult = <<>>
    /\ BuildIdle /\ PickIdle /\ EngineIdle
    /\ \E n \in 0..2 :
          editor = [on |-> TRUE, actions |-> [i \in 1..n |-> i],
                    editing_action |-> FALSE, editing_index |-> NoneIndex,
                    add_button |-> "normal", next_id |-> n + 1,
                    selected |-> 0, saved |-> FALSE, replaced |-> 0]

editRest == <<coreVars, engineVars, dual, thr, bc>>

\* refresh_display draws the inline editor: in place of the card at
\* editing_index, or at the bottom for a new action; with an editing_index
\* that matches no card it draws none
EditorShown(e) ==
    \/ e.editing_index \in 0..(Len(e.actions) - 1)
    \/ e.editing_action /\ e.editing_index = NoneIndex

\* the cards refresh_display draws: every action but the one under edit
Cards(e) == (0..(Len(e.actions) - 1)) \ {e.editing_index}

\* cancel_edit as a function of the state
CancelEdit(e) ==
    [e EXCEPT !.editing_action = FALSE, !.editing_index = NoneIndex,
              !.add_button = "normal"]

\* the Add Action button
start_add_action ==
    /\ editor.on /\ editor.add_button = "normal"
    /\ ~ editor.editing_action
    /\ editor' = [editor EXCEPT !.editing_action = TRUE,
                                !.editing_index = NoneIndex,
                                !.add_button = "disabled",
                                !.selected = 0, !.saved = FALSE]
    /\ UNCHANGED editRest

\* a click on the card of an action
start_edit_action ==
    \E index \in Cards(editor) :
        /\ editor.on
        /\ LET e == IF editor.editing_action THEN CancelEdit(editor) ELSE editor
           IN  editor' = [e EXCEPT !.editing_action = TRUE,
                                   !.editing_index = index,
                                   !.add_button = "disabled",
                                   !.selected = e.actions[index + 1],
                                   !.saved = FALSE]
        /\ UNCHANGED editRest

\* the delete button of a card or of the editor of an existing action
delete_action ==
    \E index \in 0..(Len(editor.actions) - 1) :
        /\ editor.on
        /\ index \in Cards(editor) \/ index = editor.editing_index
        /\ editor' = [editor EXCEPT
                         !.actions = [i \in 1..(Len(@) - 1) |->
                                         IF i <= index THEN @[i] ELSE @[i + 1]],
                         !.saved = FALSE]
        /\ UNCHANGED editRest

\* the Save button of the editor
save_action ==
    /\ editor.on /\ EditorShown(editor)
    /\ editor.next_id <= MaxActionIds
    /\ Len(editor.actions) < MaxEditorActions \/ editor.editing_index # NoneIndex
    /\ LET action_data == editor.next_id
           update == /\ editor.editing_index # NoneIndex
                     /\ 0 <= editor.editing_index
                     /\ editor.editing_index < Len(editor.actions)
       IN  editor' = [CancelEdit(editor) EXCEPT
                         !.actions = IF update
                                     THEN [@ EXCEPT ![editor.editing_index + 1] = action_data]
                                     ELSE Append(@, action_data),
                         !.next_id = @ + 1,
                         !.saved = TRUE,
                         !.replaced = IF update
                                      THEN editor.actions[editor.editing_index + 1]
                                      ELSE 0]
    /\ UNCHANGED editRest

\* the Cancel button of the editor
cancel_edit ==
    /\ editor.on /\ EditorShown(editor)
    /\ editor' = [CancelEdit(editor) EXCEPT !.saved = FALSE]
    /\ UNCHANGED editRest

NextEdit ==
    \/ start_add_action \/ start_edit_action \/ delete_action
    \/ save_action \/ cancel_edit

SpecEdit == InitEdit /\ [][NextEdit]_vars

\* C29: whenever editing_action is true, editing_index is None or a valid
\* index of the actions list, and a save of an edit has replaced exactly the
\* action that was selected when the edit began.
C29_EditorIndexValidAndSaveHitsSelected ==
    /\ editor.editing_action
       => \/ editor.editing_index = NoneIndex
          \/ editor.editing_index \in 0..(Len(editor.actions) - 1)
    /\ (editor.saved /\ editor.selected # 0)
       => editor.replaced = editor.selected

\* the first half of C29 alone
C29_EditorIndexValid ==
    editor.editing_action
    => \/ editor.editing_index = NoneIndex
       \/ editor.editing_index \in 0..(Len(editor.actions) - 1)

\* the second half of C29 alone
C29_SaveHitsSelected ==
    (editor.saved /\ editor.selected # 0) => editor.replaced = editor.selected

----------------------------------------------------------------------------
(* Specification SpecBrowser: the one BrowserController of the application *)
(* (app_services) called from two coroutines of the event loop for the     *)
(* alias "main".  A coroutine runs until an await that waits for the       *)
(* browser driver; every such await is a step boundary here.  The three    *)
(* maps browsers/contexts/pages are written and popped together, so one    *)
(* field stands for them: the browser stored under the alias, or 0.        *)
(* Stopping the driver ends every browser it launched.                     *)

Callers == {1, 2}

\* most browsers launched in a behaviour
MaxBrowsers == 3

InitBrowser ==
    /\ DualIdle /\ ThrIdle /\ EditIdle
    /\ value = <<>> /\ semResult = <<>>
    /\ BuildIdle /\ PickIdle /\ EngineIdle
    /\ bc = [on |-> TRUE, playwright |-> FALSE, browsers |-> 0, live |-> {},
             next_browser |-> 1,
             calls |-> [t \in Callers |-> [op |-> "none", pc |-> "idle", b |-> 0]]]

bcRest == <<coreVars, engineVars, dual, thr, editor>>

\* is_browser_running(alias)
is_browser_running(s) == s.browsers # 0 /\ s.browsers \in s.live

\* the call of caller t returns
Return(s, t) == [s EXCEPT !.calls[t].pc = "idle", !.calls[t].b = 0]

\* self.pages.clear(); self.contexts.clear(); self.browsers.clear();
\* self.playwright = None
ClearReferences(s) == [s EXCEPT !.browsers = 0, !.playwright = FALSE]

\* get_page and launch_browser once self.playwright is set: get_page
\* returns the existing page of a running browser; otherwise launch_browser
\* runs up to await self.playwright.chromium.launch(...)
AfterStart(s, t) ==
    IF s.calls[t].op = "get_page" /\ is_browser_running(s)
    THEN Return(s, t)
    ELSE [s EXCEPT !.calls[t].pc = "launch"]

\* a call of get_page("chrome", "main", url, force_navigate=False)
get_page ==
    \E t \in Callers :
        /\ bc.on /\ bc.calls[t].pc = "idle"
        /\ LET s == [bc EXCEPT !.calls[t].op = "get_page"]
           IN  bc' = IF ~ s.playwright THEN [s EXCEPT !.calls[t].pc = "start"]
                     ELSE AfterStart(s, t)
        /\ UNCHANGED bcRest

\* a call of launch_browser("chrome", "main")
launch_browser ==
    \E t \in Callers :
        /\ bc.on /\ bc.calls[t].pc = "idle"
        /\ LET s == [bc EXCEPT !.calls[t].op = "launch_browser"]
           IN  bc' = IF ~ s.playwright THEN [s EXCEPT !.calls[t].pc = "start"]
                     ELSE AfterStart(s, t)
        /\ UNCHANGED bcRest

\* start: self.playwright = await async_playwright().start() returns
StartReturns ==
    \E t \in Callers :
        /\ bc.calls[t].pc = "start"
        /\ bc' = AfterStart([bc EXCEPT !.playwright = TRUE], t)
        /\ UNCHANGED bcRest

\* launch_browser: await self.playwright.chromium.launch(...) returns the
\* new browser, or raises when the driver was stopped meanwhile
LaunchReturns ==
    \E t \in Callers :
        /\ bc.calls[t].pc \in {"launch", "launch_failed"}
        /\ bc.calls[t].pc = "launch" => bc.next_browser <= MaxBrowsers
        /\ bc' = IF bc.calls[t].pc = "launch_failed" THEN Return(bc, t)
                 ELSE [bc EXCEPT !.calls[t].pc = "context",
                                 !.calls[t].b = bc.next_browser,
                                 !.live = @ \cup {bc.next_browser},
                                 !.next_browser = @ + 1]
        /\ UNCHANGED bcRest

\* launch_browser: new_context() and new_page() have returned and the
\* references are stored under the alias; they raise on a closed browser
NewPageReturns ==
    \E t \in Callers :
        /\ bc.calls[t].pc = "context"
        /\ bc' = IF bc.calls[t].b \in bc.live
                 THEN Return([bc EXCEPT !.browsers = bc.calls[t].b], t)
                 ELSE Return(bc, t)
        /\ UNCHANGED bcRest

\* a call of close_browser_page("main"), up to the await of the page close
close_browser_page ==
    \E t \in Callers :
        /\ bc.on /\ bc.calls[t].pc = "idle"
        /\ LET s == [bc EXCEPT !.calls[t].op = "close_browser_page"]
           IN  bc' = IF s.browsers = 0 THEN s
                     ELSE [s EXCEPT !.calls[t].pc = "close_page"]
        /\ UNCHANGED bcRest

\* close_browser_page: page and context are closed; self.browsers[alias] is
\* read again (KeyError, caught, when it was popped meanwhile) and a
\* connected browser is closed
ClosePageReturns ==
    \E t \in Callers :
        /\ bc.calls[t].pc = "close_page"
        /\ bc' = IF bc.browsers = 0 THEN Return(bc, t)
                 ELSE IF bc.browsers \in bc.live
                 THEN [bc EXCEPT !.calls[t].pc = "close_browser",
                                 !.calls[t].b = bc.browsers]
                 ELSE Return([bc EXCEPT !.browsers = 0], t)
        /\ UNCHANGED bcRest

\* close_browser_page: await self.browsers[alias].close() has returned; the
\* three pops remove whatever is stored under the alias now
CloseBrowserReturns ==
    \E t \in Callers :
        /\ bc.calls[t].pc = "close_browser"
        /\ bc' = Return([bc EXCEPT !.live = @ \ {bc.calls[t].b},
                                   !.browsers = 0], t)
        /\ UNCHANGED bcRest

\* stop after its page and context loops: the next await is the close of a
\* connected browser of list(self.browsers.items()), else the stop of the
\* driver, else nothing
StopBrowsers(s, t) ==
    IF is_browser_running(s)
    THEN [s EXCEPT !.calls[t].pc = "stop_browser", !.calls[t].b = s.browsers]
    ELSE IF s.playwright THEN [s EXCEPT !.calls[t].pc = "stop_pw"]
    ELSE Return(ClearReferences(s), t)

\* a call of stop(), up to its first await
stop ==
    \E t \in Callers :
        /\ bc.on /\ bc.calls[t].pc = "idle"
        /\ LET s == [bc EXCEPT !.calls[t].op = "stop"]
           IN  bc' = IF s.browsers # 0 THEN [s EXCEPT !.calls[t].pc = "stop_pages"]
                     ELSE StopBrowsers(s, t)
        /\ UNCHANGED bcRest

\* stop resumes after an await: after the pages and contexts, after the
\* browser, after the driver (whose end ends its browsers and fails the
\* launches that wait for it)
StopResumes ==
    \E t \in Callers :
        /\ bc.calls[t].pc \in {"stop_pages", "stop_browser", "stop_pw"}
        /\ bc' =
             CASE bc.calls[t].pc = "stop_pages" -> StopBrowsers(bc, t)
               [] bc.calls[t].pc = "stop_browser" ->
                     LET s == [bc EXCEPT !.live = @ \ {bc.calls[t].b}]
                     IN  IF s.playwright THEN [s EXCEPT !.calls[t].pc = "stop_pw"]
                         ELSE Return(ClearReferences(s), t)
               [] bc.calls[t].pc = "stop_pw" ->
                     LET s == [bc EXCEPT
                                 !.live = {},
                                 !.calls = [u \in Callers |->
                                             IF @[u].pc = "launch"
                                             THEN [@[u] EXCEPT !.pc = "launch_failed"]
                                             ELSE @[u]]]
                     IN  Return(ClearReferences(s), t)
        /\ UNCHANGED bcRest

NextBrowser ==
    \/ get_page \/ launch_browser \/ StartReturns \/ LaunchReturns
    \/ NewPageReturns \/ close_browser_page \/ ClosePageReturns
    \/ CloseBrowserReturns \/ stop \/ StopResumes

SpecBrowser == InitBrowser /\ [][NextBrowser]_vars

\* every call on the controller has returned
Quiescent == \A t \in Callers : bc.calls[t].pc = "idle"

\* caller t is inside get_page and has launched a browser in this call
LaunchedInGetPage(t) ==
    /\ bc.calls[t].op = "get_page" /\ bc.calls[t].pc = "context"
    /\ bc.calls[t].b \in bc.live

\* C30: once every call has returned, at most one browser is live for the
\* alias and every live browser is the one the maps hold under the alias;
\* and two overlapping get_page calls do not both launch a browser.
C30_OneReferencedBrowserPerAlias ==
    /\ Quiescent => /\ Cardinality(bc.live) <= 1
                    /\ \A b \in bc.live : bc.browsers = b
    /\ ~ (LaunchedInGetPage(1) /\ LaunchedInGetPage(2))

\* the last part of C30 alone
C30_OverlappingGetPageLaunchesOnce ==
    ~ (LaunchedInGetPage(1) /\ LaunchedInGetPage(2))

\* the first part of C30 alone
C30_QuiescentMapsHoldLiveBrowsers ==
    Quiescent => /\ Cardinality(bc.live) <= 1
                 /\ \A b \in bc.live : bc.browsers = b

====
